---- MODULE Spec2Model ----
(***************************************************************************)
(* Model of the image search application of "Image Search/":               *)
(* ImageSearchEngine (image_search.py), ImageSearchApp (main.py): its      *)
(* search path, its start-up, its indexing thread and its cache file, and  *)
(* the Tk front end ImageSearchUI (ui.py).                                 *)
(*                                                                         *)
(* Numbers.  A similarity score or threshold x is the integer x * 10000    *)
(* (0.3 is 3000, 0.01 is 100, 1.0 is 10000).  A unit-norm embedding is an  *)
(* integer vector of Euclidean norm 10, so that the cosine similarity of   *)
(* two embeddings is their dot product / 100 and every score of the model  *)
(* is exact; floating-point rounding is not modelled.                      *)
(*                                                                         *)
(* A Python dict is a sequence of <<key, value>> pairs in insertion order. *)
(* A file path is a pair <<folder, n>>; <<folder, 0>> is a file that is    *)
(* not an image by its extension.                                          *)
(***************************************************************************)
EXTENDS Integers, Sequences, FiniteSets, TLC

VARIABLES
    disk,                       \* the file system: path -> image id, or Corrupt
    image_features,             \* ImageSearchEngine.image_features (dict)
    image_dir,                  \* ImageSearchEngine.image_dir
    user_similarity_threshold,  \* ImageSearchEngine.user_similarity_threshold
    put_log,                    \* history: path -> tensor last stored under it
    last,                       \* history: the last engine call and its result
    similarity_threshold,       \* ImageSearchApp.similarity_threshold
    sample_image_path,          \* ImageSearchApp.sample_image_path
    search_entry,               \* the text of the search field
    switches,                   \* the values of the Text / Image / Hybrid switches
    search_queue,               \* ImageSearchApp.search_queue
    search_results,             \* ImageSearchApp.search_results
    search_pollers,             \* pending check_search_status timers
    threads,                    \* the search threads: position and locals
    shown,                      \* the kind of notice the foreground showed last
    cache_file,                 \* the file image_features_cache.json
    indexing_queue,             \* ImageSearchApp.indexing_queue
    indexer,                    \* the indexing thread: position and locals
    tk,                         \* ImageSearchUI (ui.py): fields and search thread
    app,                        \* the run of the application and its indexing display
    saves                       \* the save_cache calls under way

engineVars == <<disk, image_features, image_dir, user_similarity_threshold,
                put_log, last>>
\* the cache file, the indexing thread of ImageSearchApp, and ImageSearchUI
ioVars == <<cache_file, indexing_queue, indexer, tk, app, saves>>
appVars == <<similarity_threshold, sample_image_path, search_entry, switches,
             search_queue, search_results, search_pollers, threads, shown, ioVars>>

vars == <<engineVars, appVars>>

-----------------------------------------------------------------------------
(* Bounds *)

\* image files in folder "A" and in folder "B"
NumFilesA == 5
NumFilesB == 2
\* index_images' batch_size (32 in the source), scaled down so that a
\* folder of the model spans several batches
batch_size == 2

-----------------------------------------------------------------------------
(* The world around the engine: folders, files, the encoder *)

None == "None"
\* None where a file path is expected
NoFile == <<None, 0>>
Folders == {"A", "B"}

NumFiles(d) == IF d = "A" THEN NumFilesA ELSE NumFilesB

\* every file of the two folders; file 0 of a folder has no image extension
AllFiles == {<<d, n>> : d \in Folders, n \in 0..NumFilesA} \cap
            {p \in Folders \X Nat : p[2] <= NumFiles(p[1])}

\* filename.lower().endswith(('.png', '.jpg', '.jpeg', '.gif'))
IsImageName(p) == p[2] # 0

\* os.walk(folder_path): the files of the folder, in listing order
RECURSIVE Walk(_, _)
Walk(d, n) ==
    IF n > NumFiles(d) THEN <<>> ELSE <<(<<d, n>>)>> \o Walk(d, n + 1)

\* The embeddings the encoder produces, before normalisation, for the
\* images and the texts of the model: each is 2 * (a vector of norm 10).
UnitDirs == << <<10, 0>>, <<8, 6>>, <<8, 6>>, <<0, 10>>, <<-6, 8>>,
               <<6, 8>>, <<0, -10>> >>
ImageIds == 1..Len(UnitDirs)
\* the content of a file that does not decode as an image
Corrupt == Len(UnitDirs) + 1

Texts == {"cat", "dog", "sky", "bird"}
TextDir(s) ==
    CASE s = "cat" -> <<10, 0>>
      [] s = "dog" -> <<0, 10>>
      [] s = "sky" -> <<6, 8>>
      [] OTHER     -> <<8, -6>>

Scale2(v) == [i \in DOMAIN v |-> 2 * v[i]]

\* model.encode_image on one preprocessed image: the row of the output
encode_image(img) == Scale2(UnitDirs[img])
\* model.encode_text on one tokenised text
encode_text(s) == Scale2(TextDir(s))

\* the image a file holds when the model starts
InitialImage(p) ==
    IF ~IsImageName(p) THEN Corrupt
    ELSE IF p[1] = "A" THEN ((p[2] - 1) % Len(UnitDirs)) + 1
    ELSE ((p[2] + 4) % Len(UnitDirs)) + 1

\* Image.open(path).convert("RGB") succeeds
Decodable(dsk, p) == p \in DOMAIN dsk /\ dsk[p] \in ImageIds

-----------------------------------------------------------------------------
(* Vectors and tensors *)

RECURSIVE SumSeq(_)
SumSeq(s) == IF s = <<>> THEN 0 ELSE Head(s) + SumSeq(Tail(s))

Dot(a, b) == SumSeq([i \in DOMAIN a |-> a[i] * b[i]])

\* the least n with n * n >= d, counting up from n
RECURSIVE RootFrom(_, _)
RootFrom(d, n) == IF n * n >= d THEN n ELSE RootFrom(d, n + 1)

\* the Euclidean norm; every vector of the model has an integer norm
Norm(v) == RootFrom(Dot(v, v), 0)

\* x / x.norm(dim=-1, keepdim=True); norm 1.0 is written as 10
Normalize(v) == [i \in DOMAIN v |-> (v[i] * 10) \div Norm(v)]

\* a tensor: its shape and its elements in row-major order
Tensor(shape, data) == [shape |-> shape, data |-> data]

RECURSIVE Prod(_)
Prod(s) == IF s = <<>> THEN 1 ELSE Head(s) * Prod(Tail(s))

\* Tensor.unsqueeze(0)
Unsqueeze0(t) == Tensor(<<1>> \o t.shape, t.data)


\* the shape two shapes broadcast to (shapes are aligned at their last axis)
PadShape(s, n) == [i \in 1..n |-> IF i <= n - Len(s) THEN 1 ELSE s[i - (n - Len(s))]]
Max2(a, b) == IF a >= b THEN a ELSE b
BroadcastShape(s1, s2) ==
    LET n == Max2(Len(s1), Len(s2))
    IN  [i \in 1..n |-> Max2(PadShape(s1, n)[i], PadShape(s2, n)[i])]

\* x . y / max(|x| * |y|, eps), as a score
Cosine(a, b) ==
    LET n == Norm(a) * Norm(b)
    IN  IF n = 0 THEN 0 ELSE (Dot(a, b) * 10000) \div n

\* torch.cosine_similarity(x1, x2) with its default dim=1: the axis at
\* index 1 of the broadcast shape is reduced.  When that axis is the
\* embedding axis the result has one element, the cosine of the two
\* vectors; when it has size 1 (x2 of shape (1, 1, D)) the result has shape
\* (1, D) and each element is the cosine of two one-element vectors.
cosine_similarity(x1, x2) ==
    LET shape == BroadcastShape(x1.shape, x2.shape)
        out == [i \in 1..(Len(shape) - 1) |-> IF i < 2 THEN shape[i] ELSE shape[i + 1]]
    IN  IF shape[2] = Len(x1.data)
        THEN Tensor(out, <<Cosine(x1.data, x2.data)>>)
        ELSE Tensor(out, [i \in DOMAIN x1.data |-> Cosine(<<x1.data[i]>>, <<x2.data[i]>>)])

-----------------------------------------------------------------------------
(* Results of calls that may raise *)

Return(v) == [raised |-> FALSE, val |-> v]
Raise == [raised |-> TRUE, val |-> <<>>]

\* Tensor.item(): raises unless the tensor has exactly one element
Item(t) == IF Prod(t.shape) = 1 THEN Return(t.data[1]) ELSE Raise

-----------------------------------------------------------------------------
(* Python dicts and lists *)

KeySet(d) == {d[i][1] : i \in DOMAIN d}
Keys(d) == [i \in DOMAIN d |-> d[i][1]]
DictGet(d, k) == d[CHOOSE i \in DOMAIN d : d[i][1] = k][2]

\* a faulty variant of d[k] = v: an existing key keeps its value
DictSetKeepFirst(d, k, v) ==
    IF k \in KeySet(d) THEN d ELSE Append(d, <<k, v>>)
\* d[k] = v: an existing key keeps its position and gets the new value
DictSet(d, k, v) ==
    IF k \in KeySet(d)
    THEN [i \in DOMAIN d |-> IF d[i][1] = k THEN <<k, v>> ELSE d[i]]
    ELSE Append(d, <<k, v>>)

\* del d[k]
DictDel(d, k) == SelectSeq(d, LAMBDA e : e[1] # k)

\* sorted(items, key=lambda x: x[1], reverse=True): stable, descending
RECURSIVE InsertDesc(_, _)
InsertDesc(s, e) ==
    IF s = <<>> THEN <<e>>
    ELSE IF Head(s)[2] >= e[2] THEN <<Head(s)>> \o InsertDesc(Tail(s), e)
    ELSE <<e>> \o s
RECURSIVE InsertAsc(_, _)
InsertAsc(s, e) ==
    IF s = <<>> THEN <<e>>
    ELSE IF Head(s)[2] <= e[2] THEN <<Head(s)>> \o InsertAsc(Tail(s), e)
    ELSE <<e>> \o s
RECURSIVE SortedAscending(_)
SortedAscending(s) ==
    IF s = <<>> THEN <<>> ELSE InsertAsc(SortedAscending(SubSeq(s, 1, Len(s) - 1)), s[Len(s)])
RECURSIVE SortedDescending(_)
SortedDescending(s) ==
    IF s = <<>> THEN <<>> ELSE InsertDesc(SortedDescending(SubSeq(s, 1, Len(s) - 1)), s[Len(s)])

-----------------------------------------------------------------------------
(* JSON values and the tensor <-> list conversions of the cache *)

JNum(n) == [t |-> "num", v |-> n]
JList(xs) == [t |-> "list", v |-> xs]
JStr(x) == [t |-> "str", v |-> x]
JNull == [t |-> "null", v |-> None]

\* the reserved key 'folder_path' of the cache dict
FolderPathKey == <<"folder_path", 0>>

\* Tensor.tolist(): nested lists, one level per axis
RECURSIVE ToListRec(_, _)
ToListRec(shape, data) ==
    IF Len(shape) = 0 THEN JNum(data[1])
    ELSE LET sz == Prod(Tail(shape))
         IN  JList([k \in 1..shape[1] |->
                      ToListRec(Tail(shape), SubSeq(data, (k - 1) * sz + 1, k * sz))])
\* a faulty variant of tolist: the nesting is flattened away
tolist_flat(t) == ToListRec(<<Len(t.data)>>, t.data)
tolist(t) == ToListRec(t.shape, t.data)

RECURSIVE Concat(_)
Concat(ss) == IF ss = <<>> THEN <<>> ELSE Head(ss) \o Concat(Tail(ss))

\* torch.tensor(nested list): the shape follows the nesting; it raises on
\* a value that is neither a number nor a list, and on ragged lists
RECURSIVE torch_tensor(_)
torch_tensor(j) ==
    IF j.t = "num" THEN Return(Tensor(<<>>, <<j.v>>))
    ELSE IF j.t # "list" THEN Raise
    ELSE IF j.v = <<>> THEN Return(Tensor(<<0>>, <<>>))
    ELSE LET sub == [k \in DOMAIN j.v |-> torch_tensor(j.v[k])]
         IN  IF \E k \in DOMAIN sub : sub[k].raised
                   \/ sub[k].val.shape # sub[1].val.shape
             THEN Raise
             ELSE Return(Tensor(<<Len(sub)>> \o sub[1].val.shape,
                                Concat([k \in DOMAIN sub |-> sub[k].val.data])))

-----------------------------------------------------------------------------
(* ImageSearchEngine *)

\* the tensor index_batch stores for a file: row k of the normalised batch
BatchRow(img) == Tensor(<<Len(encode_image(img))>>, Normalize(encode_image(img)))
\* the tensor of a single-image call: the whole (1, D) output
SingleOutput(img) == Tensor(<<1, Len(encode_image(img))>>, Normalize(encode_image(img)))

\* for path, features in zip(valid_paths, image_features): self.image_features[path] = ...
RECURSIVE StoreRows(_, _, _, _)
StoreRows(features, valid_paths, rows, k) ==
    IF k > Len(valid_paths) \/ k > Len(rows) THEN features
    ELSE StoreRows(DictSet(features, valid_paths[k], rows[k]), valid_paths, rows, k + 1)

\* a faulty variant of index_batch: a file that does not decode makes the
\* whole batch be dropped
index_batch_all_or_nothing(features, dsk, image_paths) ==
    LET images == [k \in DOMAIN image_paths |-> dsk[image_paths[k]]]
        rows == [k \in DOMAIN images |-> BatchRow(images[k])]
    IN  IF \E k \in DOMAIN image_paths : ~Decodable(dsk, image_paths[k])
        THEN features
        ELSE StoreRows(features, image_paths, rows, 1)

\* a faulty variant of index_batch: the rows are paired with the paths of
\* the whole batch, so that a skipped file shifts the pairing
index_batch_shifted(features, dsk, image_paths) ==
    LET valid_paths == SelectSeq(image_paths, LAMBDA p : Decodable(dsk, p))
        rows == [k \in DOMAIN valid_paths |-> BatchRow(dsk[valid_paths[k]])]
    IN  IF rows = <<>> THEN features
        ELSE StoreRows(features, image_paths, rows, 1)

\* index_batch(image_paths): the new image_features
index_batch(features, dsk, image_paths) ==
    LET valid_paths == SelectSeq(image_paths, LAMBDA p : Decodable(dsk, p))
        images == [k \in DOMAIN valid_paths |-> dsk[valid_paths[k]]]
        rows == [k \in DOMAIN images |-> BatchRow(images[k])]
    IN  IF images = <<>> THEN features
        ELSE StoreRows(features, valid_paths, rows, 1)

\* the loop of index_images over the batches starting at offset i (0-based)
RECURSIVE IndexFrom(_, _, _, _)
IndexFrom(features, dsk, image_paths, i) ==
    IF i >= Len(image_paths) THEN features
    ELSE LET hi == IF i + batch_size <= Len(image_paths) THEN i + batch_size
                   ELSE Len(image_paths)
             batch == SubSeq(image_paths, i + 1, hi)
         IN  IndexFrom(index_batch(features, dsk, batch), dsk, image_paths, i + batch_size)

\* the candidates index_images collects from the folder
ImagePaths(folder_path) == SelectSeq(Walk(folder_path, 0), IsImageName)

\* a faulty variant of index_images: the index is rebuilt from the folder
\* alone, the records of other folders are dropped
index_images_rebuilding(features, dsk, folder_path) ==
    IndexFrom(<<>>, dsk, ImagePaths(folder_path), 0)

\* index_images(folder_path): the new image_features
index_images(features, dsk, folder_path) ==
    IndexFrom(features, dsk, ImagePaths(folder_path), 0)

\* index_single_image(image_path): the new image_features
index_single_image(features, dsk, image_path) ==
    IF IsImageName(image_path) /\ Decodable(dsk, image_path)
    THEN DictSet(features, image_path, SingleOutput(dsk[image_path]))
    ELSE features

\* the loop of _calculate_similarities: similarities[path] = similarity.item()
\* for each record, in the order of the dict; the first .item() that raises
\* ends the search
Similarities(features, query_features) ==
    LET similarity == [k \in DOMAIN features |->
                          Item(cosine_similarity(query_features,
                                                 Unsqueeze0(features[k][2])))]
    IN  IF \E k \in DOMAIN features : similarity[k].raised THEN Raise
        ELSE Return([k \in DOMAIN features |-> <<features[k][1], similarity[k].val>>])

\* faulty variants of _calculate_similarities: a strict filter, an ascending sort
calculate_similarities_strict(features, query_features, threshold) ==
    LET sims == Similarities(features, query_features)
    IN  IF sims.raised THEN Raise
        ELSE Return(SortedDescending(SelectSeq(sims.val, LAMBDA e : e[2] > threshold)))
calculate_similarities_ascending(features, query_features, threshold) ==
    LET sims == Similarities(features, query_features)
    IN  IF sims.raised THEN Raise
        ELSE Return(SortedAscending(SelectSeq(sims.val, LAMBDA e : e[2] >= threshold)))

\* _calculate_similarities(query_features), threshold being the value of
\* self.user_similarity_threshold when the filter runs
calculate_similarities(features, query_features, threshold) ==
    LET sims == Similarities(features, query_features)
    IN  IF sims.raised THEN Raise
        ELSE Return(SortedDescending(SelectSeq(sims.val, LAMBDA e : e[2] >= threshold)))

\* a faulty variant of search_by_image: a query image that does not decode
\* gives an empty result
search_by_image_swallowing(features, dsk, threshold, query_image_path) ==
    IF ~Decodable(dsk, query_image_path) THEN Return(<<>>)
    ELSE calculate_similarities(features,
                                SingleOutput(dsk[query_image_path]), threshold)

\* search_by_image(query_image_path)
search_by_image(features, dsk, threshold, query_image_path) ==
    IF ~Decodable(dsk, query_image_path) THEN Raise
    ELSE calculate_similarities(features,
                                SingleOutput(dsk[query_image_path]), threshold)

\* search_by_text(query_text)
search_by_text(features, threshold, query_text) ==
    calculate_similarities(features,
        Tensor(<<1, Len(encode_text(query_text))>>, Normalize(encode_text(query_text))),
        threshold)

\* dict(result)[path] and dict(result).get(path, 0)
ScoreIn(result, path) == DictGet(result, path)
GetOr0(result, path) == IF path \in KeySet(result) THEN DictGet(result, path) ELSE 0

\* faulty variants of combined_score: a cap at 1.0, the score of the single
\* set taken as it is
combined_score_capped(image_results, text_results, path) ==
    LET c == IF path \in KeySet(image_results) /\ path \in KeySet(text_results)
             THEN ((GetOr0(image_results, path) + GetOr0(text_results, path)) * 3) \div 4
             ELSE (GetOr0(image_results, path) + GetOr0(text_results, path)) \div 2
    IN  IF c > 10000 THEN 10000 ELSE c
combined_score_whole(image_results, text_results, path) ==
    IF path \in KeySet(image_results) /\ path \in KeySet(text_results)
    THEN ((GetOr0(image_results, path) + GetOr0(text_results, path)) * 3) \div 4
    ELSE GetOr0(image_results, path) + GetOr0(text_results, path)

\* the combined score search_hybrid gives a path of the union:
\* (image_score + text_score) / 2, times 1.5 when the path is in both sets
combined_score(image_results, text_results, path) ==
    IF path \in KeySet(image_results) /\ path \in KeySet(text_results)
    THEN ((GetOr0(image_results, path) + GetOr0(text_results, path)) * 3) \div 4
    ELSE (GetOr0(image_results, path) + GetOr0(text_results, path)) \div 2

\* min_combined_score = 0.3
min_combined_score == 3000

\* a faulty variant of hybrid_candidates: the intersection
hybrid_candidates_both(image_results, text_results) ==
    KeySet(image_results) \cap KeySet(text_results)
\* the candidates of search_hybrid: set(image_results) | set(text_results)
hybrid_candidates(image_results, text_results) ==
    KeySet(image_results) \cup KeySet(text_results)

\* filtered_results of search_hybrid, as a set of (path, score) entries
hybrid_filtered(image_results, text_results) ==
    {e \in {<<p, combined_score(image_results, text_results, p)>> :
                p \in hybrid_candidates(image_results, text_results)} :
        e[2] >= min_combined_score}

\* sorted(filtered_results.items(), ...) when the dict was filled in the
\* iteration order of a set: every descending arrangement of the entries
\* (entries of equal score come in any order)
RECURSIVE Arrangements(_)
Arrangements(S) ==
    IF S = {} THEN {<<>>}
    ELSE LET top == {e \in S : \A f \in S : e[2] >= f[2]}
         IN  UNION {{<<e>> \o r : r \in Arrangements(S \ {e})} : e \in top}

\* search_hybrid(query_image_path, query_text): raised, or the set of the
\* results it may return.  th_image and th_text are the values of
\* self.user_similarity_threshold read by the two single-mode searches.
search_hybrid(features, dsk, th_image, th_text, query_image_path, query_text) ==
    LET image_results == search_by_image(features, dsk, th_image, query_image_path)
        text_results == search_by_text(features, th_text, query_text)
    IN  IF image_results.raised \/ text_results.raised THEN Raise
        ELSE Return(Arrangements(hybrid_filtered(image_results.val, text_results.val)))

\* get_indexed_images()
get_indexed_images(features) == Keys(features)

\* get_cache()
get_cache(features, dir) ==
    DictSet([i \in DOMAIN features |-> <<features[i][1], tolist(features[i][2])>>],
            FolderPathKey, IF dir = None THEN JNull ELSE JStr(dir))

\* the dict comprehension of load_cache: torch.tensor of every value
TensorItems(items) == [i \in DOMAIN items |-> <<items[i][1], torch_tensor(items[i][2])>>]

\* a faulty variant of load_cache: the loaded records are merged into the index
load_cache_merge(features, dir, cache_data) ==
    LET has == FolderPathKey \in KeySet(cache_data)
        new_dir == IF ~has THEN dir
                   ELSE IF DictGet(cache_data, FolderPathKey).t = "null" THEN None
                   ELSE DictGet(cache_data, FolderPathKey).v
        items == TensorItems(DictDel(cache_data, FolderPathKey))
    IN  [raised |-> FALSE,
         image_features |-> features \o
             SelectSeq([i \in DOMAIN items |-> <<items[i][1], items[i][2].val>>],
                       LAMBDA e : e[1] \notin KeySet(features)),
         image_dir |-> new_dir]

\* load_cache(cache_data): whether it raised, and the engine's fields after
\* it.  image_dir is assigned before the tensors are built, image_features
\* only when every tensor was built.
load_cache(features, dir, cache_data) ==
    LET has == FolderPathKey \in KeySet(cache_data)
        new_dir == IF ~has THEN dir
                   ELSE IF DictGet(cache_data, FolderPathKey).t = "null" THEN None
                   ELSE DictGet(cache_data, FolderPathKey).v
        items == TensorItems(DictDel(cache_data, FolderPathKey))
    IN  IF \E i \in DOMAIN items : items[i][2].raised
        THEN [raised |-> TRUE, image_features |-> features, image_dir |-> new_dir]
        ELSE [raised |-> FALSE,
              image_features |-> [i \in DOMAIN items |-> <<items[i][1], items[i][2].val>>],
              image_dir |-> new_dir]

-----------------------------------------------------------------------------
(* The engine as a state machine: one action per call of its interface *)

\* values of the similarity slider (0..100, divided by 100) besides the
\* application's initial 0.15
Thresholds == {0, 1500, 5000, 10000}

InitialDisk == [p \in AllFiles |-> InitialImage(p)]

\* files whose content changes while the program runs, and what they become
EditableFiles == {<<"A", 1>>}
Replacements(p) == {InitialImage(p), 4, Corrupt}

\* files passed to index_single_image and used as query images
SingleFiles == {<<"A", 0>>, <<"A", 1>>, <<"B", 1>>}
QueryFiles == {<<"A", 0>>, <<"A", 1>>, <<"A", 2>>, <<"A", 3>>, <<"B", 1>>}
\* the queries of the hybrid searches
HybridFiles == {<<"A", 1>>, <<"A", 2>>, <<"B", 1>>}
HybridTexts == {"sky", "bird"}

\* snapshots handed to load_cache besides the engine's own get_cache():
\* caches written by earlier runs of the program
SampleSnapshots ==
    LET b == get_cache(index_images(<<>>, InitialDisk, "B"), "B")
        s == get_cache(index_single_image(<<>>, [InitialDisk EXCEPT ![<<"A", 1>>] = 4],
                                          <<"A", 1>>), None)
    IN  {b, s, DictDel(b, FolderPathKey), get_cache(<<>>, "A")}

Call(op, arg, ret) ==
    [op |-> op, arg |-> arg, pre_features |-> image_features,
     pre_dir |-> image_dir, ret |-> ret]

\* the history of stores: W maps each path an operation stores to its tensor
LogPut(log, W) ==
    [p \in DOMAIN log \cup DOMAIN W |-> IF p \in DOMAIN W THEN W[p] ELSE log[p]]

\* searches the model follows at a time: a search counts from search_images
\* until check_search_status has taken its message from the queue
MaxSearchThreads == 1

\* a search thread that has not started: its position and its locals
IdleThread ==
    [pc |-> "idle", search_type |-> "", query_text |-> "",
     image_results |-> <<>>, raised |-> FALSE,
     original_threshold |-> 0, all_results |-> <<>>]

\* no cache file: os.path.exists(cache_file) is False
NoCacheFile == [exists |-> FALSE, tokens |-> <<>>]

\* the indexing thread before it is started: its position, its locals and
\* the values it has passed to progress_callback
IdleIndexer ==
    [pc |-> "idle", folder_path |-> None, image_paths |-> <<>>, i |-> 0,
     reported |-> <<>>]

\* the callers of save_cache: the indexing thread, and page.on_close
Savers == {"index_thread", "on_close"}
\* a save_cache call not under way: what json.dump writes, and how much of
\* it has reached the file
IdleSave == [pc |-> "idle", out |-> <<>>, k |-> 0]

\* the application after __init__, before initialize() has run; drop is the
\* process_image thread of on_image_drop_to_search, not started
AppInit ==
    [phase |-> "init", starts |-> 1, cache_status |-> "none", pollers |-> 0,
     progress_bar |-> <<0, 1>>, notice |-> "none",
     drop |-> [pc |-> "idle", image_path |-> NoFile]]

\* ImageSearchUI.__init__, no search thread started
TkStart ==
    [similarity_threshold |-> 5000, search_folder |-> "", sample_image |-> NoFile,
     text_search_var |-> "", search_type_var |-> "Text", indexing |-> FALSE,
     pc |-> "idle", search_type |-> "", sample |-> NoFile, search_text |-> "",
     displayed |-> "none", results |-> <<>>]

\* the parts of the model a specification leaves aside stay as they start
IoStart ==
    /\ cache_file = NoCacheFile
    /\ indexing_queue = <<>>
    /\ indexer = IdleIndexer
    /\ tk = TkStart
    /\ app = AppInit
    /\ saves = [s \in Savers |-> IdleSave]

\* ImageSearchApp.__init__ and create_layout
AppStart ==
    /\ similarity_threshold = 1500
    /\ sample_image_path = NoFile
    /\ search_entry = ""
    /\ switches = [text |-> TRUE, image |-> FALSE, hybrid |-> FALSE]
    /\ search_queue = <<>>
    /\ search_results = <<>>
    /\ search_pollers = 0
    /\ threads = [i \in 1..MaxSearchThreads |-> IdleThread]
    /\ shown = "none"

Init ==
    /\ disk = InitialDisk
    /\ image_features = <<>>
    /\ image_dir = None
    /\ user_similarity_threshold = 0
    /\ put_log = [p \in {} |-> None]
    /\ last = [op |-> "init", arg |-> None, pre_features |-> <<>>,
               pre_dir |-> None, ret |-> Return(<<>>)]
    /\ AppStart
    /\ IoStart

\* a file of a folder is replaced or damaged
EditFile(p, c) ==
    /\ disk[p] # c
    /\ disk' = [disk EXCEPT ![p] = c]
    /\ last' = Call("edit", p, Return(<<>>))
    /\ UNCHANGED <<image_features, image_dir, user_similarity_threshold, put_log, appVars>>

IndexImages(folder_path) ==
    /\ image_features' = index_images(image_features, disk, folder_path)
    /\ put_log' = LogPut(put_log,
           [p \in {q \in AllFiles : q[1] = folder_path /\ IsImageName(q) /\ Decodable(disk, q)}
               |-> BatchRow(disk[p])])
    /\ last' = Call("index_images", folder_path, Return(<<>>))
    /\ UNCHANGED <<disk, image_dir, user_similarity_threshold, appVars>>

IndexSingleImage(image_path) ==
    /\ image_features' = index_single_image(image_features, disk, image_path)
    /\ put_log' = IF IsImageName(image_path) /\ Decodable(disk, image_path)
                  THEN LogPut(put_log, [p \in {image_path} |-> SingleOutput(disk[p])])
                  ELSE put_log
    /\ last' = Call("index_single_image", image_path, Return(<<>>))
    /\ UNCHANGED <<disk, image_dir, user_similarity_threshold, appVars>>

\* the tensor a snapshot holds for a path
SnapshotTensor(cache_data, p) == torch_tensor(DictGet(cache_data, p)).val

LoadCache(cache_data) ==
    LET r == load_cache(image_features, image_dir, cache_data)
    IN  /\ image_features' = r.image_features
        /\ image_dir' = r.image_dir
        /\ put_log' = IF r.raised THEN put_log
                      ELSE [p \in KeySet(cache_data) \ {FolderPathKey}
                               |-> SnapshotTensor(cache_data, p)]
        /\ last' = Call("load_cache", cache_data, [raised |-> r.raised, val |-> <<>>])
        /\ UNCHANGED <<disk, user_similarity_threshold, appVars>>

\* load_cache(get_cache())
RoundTrip ==
    LET cache_data == get_cache(image_features, image_dir)
        r == load_cache(image_features, image_dir, cache_data)
    IN  /\ image_features' = r.image_features
        /\ image_dir' = r.image_dir
        /\ put_log' = IF r.raised THEN put_log
                      ELSE [p \in KeySet(cache_data) \ {FolderPathKey}
                               |-> SnapshotTensor(cache_data, p)]
        /\ last' = Call("round_trip", cache_data, [raised |-> r.raised, val |-> <<>>])
        /\ UNCHANGED <<disk, user_similarity_threshold, appVars>>

\* search_engine.image_dir = path
SetImageDir(d) ==
    /\ image_dir # d
    /\ image_dir' = d
    /\ last' = Call("set_image_dir", d, Return(<<>>))
    /\ UNCHANGED <<disk, image_features, user_similarity_threshold, put_log, appVars>>

\* search_engine.user_similarity_threshold = threshold
SetThreshold(t) ==
    /\ user_similarity_threshold # t
    /\ user_similarity_threshold' = t
    /\ last' = Call("set_threshold", t, Return(<<>>))
    /\ UNCHANGED <<disk, image_features, image_dir, put_log, appVars>>

\* A search changes nothing but the record of the last call, so a search made
\* right after another leads where it leads from the state before that one:
\* the model makes each search from a state that is not the outcome of one.
AfterSearch == last.op \in {"search_by_text", "search_by_image", "search_hybrid"}

SearchByText(query_text) ==
    /\ ~AfterSearch
    /\ last' = Call("search_by_text", [text |-> query_text, image |-> NoFile],
                    search_by_text(image_features, user_similarity_threshold, query_text))
    /\ UNCHANGED <<disk, image_features, image_dir, user_similarity_threshold, put_log, appVars>>

SearchByImage(query_image_path) ==
    /\ ~AfterSearch
    /\ last' = Call("search_by_image", [text |-> "", image |-> query_image_path],
                    search_by_image(image_features, disk, user_similarity_threshold,
                                    query_image_path))
    /\ UNCHANGED <<disk, image_features, image_dir, user_similarity_threshold, put_log, appVars>>

SearchHybrid(query_image_path, query_text) ==
    LET r == search_hybrid(image_features, disk, user_similarity_threshold,
                           user_similarity_threshold, query_image_path, query_text)
    IN  /\ ~AfterSearch
        /\ IF r.raised
           THEN last' = Call("search_hybrid",
                             [text |-> query_text, image |-> query_image_path], Raise)
           ELSE \E res \in r.val :
                   last' = Call("search_hybrid",
                                [text |-> query_text, image |-> query_image_path],
                                Return(res))
        /\ UNCHANGED <<disk, image_features, image_dir, user_similarity_threshold, put_log, appVars>>

\* The indexing interface of the engine: files change, folders and single
\* files are indexed, caches are loaded.
Next ==
    \/ \E p \in EditableFiles : \E c \in Replacements(p) : EditFile(p, c)
    \/ \E d \in Folders : IndexImages(d)
    \/ \E p \in SingleFiles : IndexSingleImage(p)
    \/ \E c \in SampleSnapshots : LoadCache(c)
    \/ RoundTrip
    \/ \E d \in Folders : SetImageDir(d)

Spec == Init /\ [][Next]_vars

\* The search interface of the engine, applied to index contents that the
\* indexing interface produces.
IndexContents ==
    LET d4 == [InitialDisk EXCEPT ![<<"A", 1>>] = 4]
        a == index_images(<<>>, InitialDisk, "A")
        b == index_images(<<>>, InitialDisk, "B")
    IN  {<<>>, a, b,
         index_images(a, InitialDisk, "B"),
         index_images(b, d4, "A"),
         index_single_image(a, InitialDisk, <<"B", 1>>),
         load_cache(a, "A", get_cache(b, "B")).image_features}

InitSearch ==
    /\ disk \in {InitialDisk, [InitialDisk EXCEPT ![<<"A", 1>>] = Corrupt]}
    /\ image_features \in IndexContents
    /\ image_dir = None
    /\ user_similarity_threshold = 0
    /\ put_log = [p \in KeySet(image_features) |-> DictGet(image_features, p)]
    /\ last = [op |-> "init", arg |-> None, pre_features |-> <<>>,
               pre_dir |-> None, ret |-> Return(<<>>)]
    /\ AppStart
    /\ IoStart

NextSearch ==
    \/ \E t \in Thresholds : SetThreshold(t)
    \/ \E s \in Texts : SearchByText(s)
    \/ \E p \in QueryFiles : SearchByImage(p)
    \/ \E p \in HybridFiles : \E s \in HybridTexts : SearchHybrid(p, s)

SpecSearch == InitSearch /\ [][NextSearch]_vars

-----------------------------------------------------------------------------
(* Claims about the index: checked under Spec *)

EntrySet(res) == {res[i] : i \in DOMAIN res}

\* C1: after any sequence of index_batch / index_single_image / load_cache
\* operations the index holds at most one record per path, and the vector
\* stored for a path is the one written by the most recent operation that
\* wrote that path.
C1_OverwriteSemantics ==
    /\ \A i, j \in DOMAIN image_features :
          image_features[i][1] = image_features[j][1] => i = j
    /\ \A i \in DOMAIN image_features :
          /\ image_features[i][1] \in DOMAIN put_log
          /\ image_features[i][2] = put_log[image_features[i][1]]

\* a folder was indexed again after one of its files changed: the path was
\* in the index before, with another vector
C1_Witness ==
    /\ last.op = "index_images"
    /\ \E p \in KeySet(last.pre_features) \cap KeySet(image_features) :
          DictGet(last.pre_features, p) # DictGet(image_features, p)

\* C2: load_cache(get_cache()) reconstructs an index with the identical
\* path set, the identical vector per path (same order, shape and values)
\* and the same folder path.
C2_RoundTrip ==
    last.op = "round_trip" =>
        /\ ~last.ret.raised
        /\ image_features = last.pre_features
        /\ image_dir = last.pre_dir

\* a round trip of an index that holds tensors of both shapes and a folder
C2_Witness ==
    /\ last.op = "round_trip"
    /\ image_dir \in Folders
    /\ \E i, j \in DOMAIN image_features :
          Len(image_features[i][2].shape) = 1 /\ Len(image_features[j][2].shape) = 2

\* C3: after load_cache(snapshot) the set of indexed paths is exactly the
\* set of record keys of the snapshot, whatever the index held before.
C3_LoadReplaces ==
    (last.op = "load_cache" /\ ~last.ret.raised) =>
        KeySet(image_features) = KeySet(last.arg) \ {FolderPathKey}

\* a load into an index that held paths the snapshot does not have
C3_Witness ==
    /\ last.op = "load_cache"
    /\ ~last.ret.raised
    /\ KeySet(last.pre_features) \ KeySet(last.arg) # {}
    /\ KeySet(last.arg) \ (KeySet(last.pre_features) \cup {FolderPathKey}) # {}

-----------------------------------------------------------------------------
(* Claims about the searches: checked under SpecSearch *)

\* the embedding of the query of the last single-mode search
LastQueryVector ==
    IF last.op = "search_by_text" THEN Normalize(encode_text(last.arg.text))
    ELSE Normalize(encode_image(disk[last.arg.image]))

SingleSearchReturned ==
    /\ last.op \in {"search_by_text", "search_by_image"}
    /\ ~last.ret.raised

\* C4: the result of search_by_text / search_by_image contains exactly the
\* indexed paths whose similarity to the query is >= the threshold, each at
\* most once, each paired with that similarity.
C4_ExactlyAboveThreshold ==
    SingleSearchReturned =>
        LET q == LastQueryVector
            score == [k \in DOMAIN image_features |-> Cosine(q, image_features[k][2].data)]
        IN  /\ \A i, j \in DOMAIN last.ret.val :
                  last.ret.val[i][1] = last.ret.val[j][1] => i = j
            /\ EntrySet(last.ret.val) =
                  {<<image_features[k][1], score[k]>> : k \in
                      {n \in DOMAIN image_features : score[n] >= user_similarity_threshold}}

\* a search that keeps a path scoring exactly the threshold and drops another
C4_Witness ==
    /\ SingleSearchReturned
    /\ \E i \in DOMAIN last.ret.val : last.ret.val[i][2] = user_similarity_threshold
    /\ KeySet(image_features) \ KeySet(last.ret.val) # {}

\* C5: the sequence returned by search_by_text / search_by_image is sorted
\* by non-increasing score.
C5_SortedDescending ==
    SingleSearchReturned =>
        \A i \in DOMAIN last.ret.val :
            i < Len(last.ret.val) => last.ret.val[i][2] >= last.ret.val[i + 1][2]

\* a result of three or more entries that is not in index order
C5_Witness ==
    /\ SingleSearchReturned
    /\ Len(last.ret.val) >= 3
    /\ last.ret.val[1][2] > last.ret.val[Len(last.ret.val)][2]
    /\ Keys(last.ret.val) # Keys(SelectSeq(image_features,
                                  LAMBDA e : e[1] \in KeySet(last.ret.val)))

\* the query image of the last search_by_image is an indexed record with
\* the vector the index holds for it
QueryIsIndexed ==
    /\ last.op = "search_by_image"
    /\ ~last.ret.raised
    /\ last.arg.image \in KeySet(image_features)
    /\ DictGet(image_features, last.arg.image).data = LastQueryVector
    /\ user_similarity_threshold <= 10000

LastImageResults ==
    search_by_image(image_features, disk, user_similarity_threshold, last.arg.image).val
LastTextResults ==
    search_by_text(image_features, user_similarity_threshold, last.arg.text).val

HybridReturned == last.op = "search_hybrid" /\ ~last.ret.raised

InBoth(img, txt, p) == p \in KeySet(img) /\ p \in KeySet(txt)
InOne(img, txt, p) == (p \in KeySet(img)) # (p \in KeySet(txt))
\* the score of a path in the one set that holds it
OneScore(img, txt, p) ==
    IF p \in KeySet(img) THEN DictGet(img, p) ELSE DictGet(txt, p)

\* C7: a path present in both single-mode results gets the combined score
\* (image_score + text_score) / 2 * 1.5, which is not capped at 1.0.
C7_BoostedMean ==
    HybridReturned =>
        LET img == LastImageResults
            txt == LastTextResults
        IN  \A i \in DOMAIN last.ret.val :
                InBoth(img, txt, last.ret.val[i][1]) =>
                    4 * last.ret.val[i][2] =
                        3 * (DictGet(img, last.ret.val[i][1])
                             + DictGet(txt, last.ret.val[i][1]))

\* image score 0.8 and text score 0.6 give 1.05
C7_Witness ==
    /\ HybridReturned
    /\ \E i \in DOMAIN last.ret.val :
          /\ InBoth(LastImageResults, LastTextResults, last.ret.val[i][1])
          /\ DictGet(LastImageResults, last.ret.val[i][1]) = 8000
          /\ DictGet(LastTextResults, last.ret.val[i][1]) = 6000
          /\ last.ret.val[i][2] = 10500

\* C8 as claimed: a path present in only one of the two single-mode results
\* gets exactly the score it has in that one set.
C8_Claimed ==
    HybridReturned =>
        LET img == LastImageResults
            txt == LastTextResults
        IN  \A i \in DOMAIN last.ret.val :
                InOne(img, txt, last.ret.val[i][1]) =>
                    last.ret.val[i][2] = OneScore(img, txt, last.ret.val[i][1])

\* C8: a path present in only one of the two single-mode results gets half
\* the score it has in that one set (the missing score counts as 0 in the
\* mean).
C8_HalfOfSingleScore ==
    HybridReturned =>
        LET img == LastImageResults
            txt == LastTextResults
        IN  \A i \in DOMAIN last.ret.val :
                InOne(img, txt, last.ret.val[i][1]) =>
                    2 * last.ret.val[i][2] = OneScore(img, txt, last.ret.val[i][1])

\* a hybrid result holding a path that only one single-mode search returned
C8_Witness ==
    /\ HybridReturned
    /\ \E i \in DOMAIN last.ret.val :
          /\ InOne(LastImageResults, LastTextResults, last.ret.val[i][1])
          /\ last.ret.val[i][2] > 0

\* the combined score of a path of the union, from the two single-mode results
UnionScore(img, txt, p) ==
    IF InBoth(img, txt, p)
    THEN (3 * (DictGet(img, p) + DictGet(txt, p))) \div 4
    ELSE OneScore(img, txt, p) \div 2

\* C9: the result of search_hybrid is exactly the set of paths of the union
\* of the two single-mode results whose combined score is >= 0.3, whatever
\* the similarity threshold, sorted by descending combined score.
C9_UnionAboveFixedCutoff ==
    HybridReturned =>
        LET img == LastImageResults
            txt == LastTextResults
        IN  /\ \A i, j \in DOMAIN last.ret.val :
                  last.ret.val[i][1] = last.ret.val[j][1] => i = j
            /\ KeySet(last.ret.val) =
                  {p \in KeySet(img) \cup KeySet(txt) : UnionScore(img, txt, p) >= 3000}
            /\ \A i \in DOMAIN last.ret.val :
                  /\ last.ret.val[i][2] = UnionScore(img, txt, last.ret.val[i][1])
                  /\ i < Len(last.ret.val) =>
                        last.ret.val[i][2] >= last.ret.val[i + 1][2]

\* with the threshold at 0, a path of the union is dropped by the 0.3
\* cutoff and a path that only one search returned is kept
C9_Witness ==
    /\ HybridReturned
    /\ user_similarity_threshold = 0
    /\ (KeySet(LastImageResults) \cup KeySet(LastTextResults)) \ KeySet(last.ret.val) # {}
    /\ \E i \in DOMAIN last.ret.val :
          InOne(LastImageResults, LastTextResults, last.ret.val[i][1])

-----------------------------------------------------------------------------
(* ImageSearchApp: the search path, with its background threads *)

\* the caches the application may find when it starts (<<>>: none, or an
\* empty one)
\* the folders when an older cache file was written: A4 held another image
OlderDisk == [InitialDisk EXCEPT ![<<"A", 4>>] = 1]

CacheFiles ==
    LET a == index_images(<<>>, InitialDisk, "A")
    IN  {<<>>, get_cache(a, "A"),
         get_cache(index_images(a, InitialDisk, "B"), "B"),
         get_cache(index_images(index_images(<<>>, OlderDisk, "A"), OlderDisk, "B"), "B")}

\* what the user may type, select and set
EntryTexts == {"", "sky", "bird"}
SampleFiles == {<<"B", 1>>}
SliderThresholds == {10000}

\* the application after initialize(): the cache file, if any, is loaded
InitApp ==
    /\ disk = InitialDisk
    /\ \E c \in CacheFiles :
          /\ image_features = load_cache(<<>>, None, c).image_features
          /\ image_dir = load_cache(<<>>, None, c).image_dir
    /\ user_similarity_threshold = 0
    /\ put_log = [p \in KeySet(image_features) |-> DictGet(image_features, p)]
    /\ last = [op |-> "init", arg |-> None, pre_features |-> <<>>,
               pre_dir |-> None, ret |-> Return(<<>>)]
    /\ AppStart
    /\ IoStart

\* update_similarity_value: the slider is moved
UpdateSimilarityValue(t) ==
    /\ similarity_threshold # t
    /\ similarity_threshold' = t
    /\ UNCHANGED <<engineVars, ioVars, sample_image_path, search_entry, switches,
                   search_queue, search_results, search_pollers, threads, shown>>

\* file_picker_result: a sample image is picked
FilePickerResult(p) ==
    /\ sample_image_path # p
    /\ sample_image_path' = p
    /\ UNCHANGED <<engineVars, ioVars, similarity_threshold, search_entry, switches,
                   search_queue, search_results, search_pollers, threads, shown>>

\* the search field is edited: on_text_field_change selects the text mode
OnTextFieldChange(s) ==
    /\ search_entry # s
    /\ search_entry' = s
    /\ switches' = [text |-> TRUE, image |-> FALSE, hybrid |-> FALSE]
    /\ UNCHANGED <<engineVars, ioVars, similarity_threshold, sample_image_path,
                   search_queue, search_results, search_pollers, threads, shown>>

\* update_search_type: the switch `which` was flipped by the user
UpdateSearchType(which) ==
    LET flipped == [switches EXCEPT ![which] = ~switches[which]]
    IN  /\ switches' =
              IF flipped[which]
              THEN [text |-> which = "text", image |-> which = "image",
                    hybrid |-> which = "hybrid"]
              ELSE [flipped EXCEPT ![which] = TRUE]
        /\ UNCHANGED <<engineVars, ioVars, similarity_threshold, sample_image_path, search_entry,
                       search_queue, search_results, search_pollers, threads, shown>>

\* the search type search_images reads from the switches
SearchType ==
    IF switches.text THEN "Text" ELSE IF switches.image THEN "Image" ELSE "Hybrid"

\* str.strip() on the texts of the model: only " " holds white space
strip(s) == IF s = " " THEN "" ELSE s

\* a faulty variant of validate_search_inputs: the text is required of a
\* text search only
validate_search_inputs_text_only(search_type, query_text) ==
    /\ ~(search_type \in {"Image", "Hybrid"} /\ sample_image_path = NoFile)
    /\ ~(search_type = "Text" /\ query_text = "")
    /\ image_features # <<>>

\* validate_search_inputs(search_type, query_text)
validate_search_inputs(search_type, query_text) ==
    /\ ~(search_type \in {"Image", "Hybrid"} /\ sample_image_path = NoFile)
    /\ ~(search_type \in {"Text", "Hybrid"} /\ query_text = "")
    /\ image_features # <<>>

\* search_images, rejected by validate_search_inputs: show_error
SearchImagesRejected ==
    /\ ~validate_search_inputs(SearchType, strip(search_entry))
    /\ shown' = "invalid"
    /\ UNCHANGED <<engineVars, ioVars, similarity_threshold, sample_image_path, search_entry,
                   switches, search_queue, search_results, search_pollers, threads>>

\* search_images, once the inputs are valid: the engine's threshold is set,
\* a search thread and a check_search_status poller are started
StartSearch(tid, search_type, query_text) ==
    /\ threads[tid].pc = "idle"
    /\ search_pollers < Len(threads)
    /\ \A other \in 1..(tid - 1) : threads[other].pc # "idle"
    /\ user_similarity_threshold' = similarity_threshold
    /\ threads' = [threads EXCEPT ![tid] =
                      [IdleThread EXCEPT !.pc = "search", !.search_type = search_type,
                                         !.query_text = query_text]]
    /\ search_pollers' = search_pollers + 1

\* search_images called by the search button or the Enter key
SearchImages(tid) ==
    /\ validate_search_inputs(SearchType, strip(search_entry))
    /\ StartSearch(tid, SearchType, strip(search_entry))
    /\ UNCHANGED <<disk, image_features, image_dir, put_log, last, ioVars,
                   similarity_threshold, sample_image_path, search_entry, switches,
                   search_queue, search_results, shown>>

\* the part of perform_search a thread runs at one position: for a hybrid
\* search the image search comes first and the text search after it
SearchStep(t, second) ==
    IF t.search_type = "Text" \/ second
    THEN search_by_text(image_features, user_similarity_threshold, t.query_text)
    ELSE search_by_image(image_features, disk, user_similarity_threshold,
                         sample_image_path)

\* what search_hybrid may return once its two searches have returned
HybridResults(image_results, text_results) ==
    Arrangements(hybrid_filtered(image_results, text_results))

\* the results a thread may get from a search whose last part returned r
Outcomes(t, r) ==
    IF r.raised THEN {Raise}
    ELSE IF t.search_type = "Hybrid"
    THEN {Return(res) : res \in HybridResults(t.image_results, r.val)}
    ELSE {r}

Message(kind, results, threshold) ==
    [kind |-> kind, results |-> results, threshold |-> threshold]

appFrame == <<similarity_threshold, sample_image_path, search_entry, switches,
              search_pollers, shown>>

\* search_hybrid of a thread, first half: search_by_image.  In the first
\* search of search_thread an exception ends the thread with an 'error'
\* message; in the search of the fallback it is kept until the finally
\* clause of perform_search has run.
ThreadSearchImage(tid) ==
    LET t == threads[tid]
        r == SearchStep(t, FALSE)
    IN  /\ t.pc \in {"search", "search2"}
        /\ t.search_type = "Hybrid"
        /\ IF ~r.raised
           THEN /\ threads' = [threads EXCEPT ![tid].image_results = r.val,
                                  ![tid].pc = IF t.pc = "search" THEN "search_text"
                                              ELSE "search2_text"]
                /\ UNCHANGED search_queue
           ELSE IF t.pc = "search"
           THEN /\ threads' = [threads EXCEPT ![tid] = IdleThread]
                /\ search_queue' = Append(search_queue, Message("error", <<>>, 0))
           ELSE /\ threads' = [threads EXCEPT ![tid].pc = "restore", ![tid].raised = TRUE]
                /\ UNCHANGED search_queue
        /\ UNCHANGED <<engineVars, ioVars, search_results, appFrame>>

\* a faulty variant of ThreadSearch: search_thread without its except
\* clause, a search that raises ends the thread without a message
ThreadSearch_unhandled(tid) ==
    LET t == threads[tid]
        r == SearchStep(t, t.pc = "search_text")
    IN  /\ \/ t.pc = "search" /\ t.search_type # "Hybrid"
           \/ t.pc = "search_text"
        /\ \E o \in Outcomes(t, r) :
              IF o.raised
              THEN /\ threads' = [threads EXCEPT ![tid] = IdleThread]
                   /\ UNCHANGED <<search_queue, search_results>>
              ELSE IF o.val = <<>>
              THEN /\ threads' = [threads EXCEPT ![tid].pc = "save",
                                     ![tid].image_results = <<>>]
                   /\ UNCHANGED <<search_queue, search_results>>
              ELSE /\ threads' = [threads EXCEPT ![tid] = IdleThread]
                   /\ search_results' = o.val
                   /\ search_queue' = Append(search_queue, Message("finished", o.val, 0))
        /\ UNCHANGED <<engineVars, ioVars, appFrame>>

\* search_thread: results = self.perform_search(search_type, query_text),
\* up to the message of a search that raised or found something
ThreadSearch(tid) ==
    LET t == threads[tid]
        r == SearchStep(t, t.pc = "search_text")
    IN  /\ \/ t.pc = "search" /\ t.search_type # "Hybrid"
           \/ t.pc = "search_text"
        /\ \E o \in Outcomes(t, r) :
              IF o.raised
              THEN /\ threads' = [threads EXCEPT ![tid] = IdleThread]
                   /\ search_queue' = Append(search_queue, Message("error", <<>>, 0))
                   /\ UNCHANGED search_results
              ELSE IF o.val = <<>>
              THEN /\ threads' = [threads EXCEPT ![tid].pc = "save",
                                     ![tid].image_results = <<>>]
                   /\ UNCHANGED <<search_queue, search_results>>
              ELSE /\ threads' = [threads EXCEPT ![tid] = IdleThread]
                   /\ search_results' = o.val
                   /\ search_queue' = Append(search_queue, Message("finished", o.val, 0))
        /\ UNCHANGED <<engineVars, ioVars, appFrame>>

\* perform_search(threshold=0): original_threshold = ...user_similarity_threshold
ThreadSaveThreshold(tid) ==
    /\ threads[tid].pc = "save"
    /\ threads' = [threads EXCEPT ![tid].pc = "override",
                      ![tid].original_threshold = user_similarity_threshold]
    /\ UNCHANGED <<engineVars, ioVars, search_queue, search_results, appFrame>>

\* perform_search(threshold=0): ...user_similarity_threshold = threshold
ThreadOverrideThreshold(tid) ==
    /\ threads[tid].pc = "override"
    /\ user_similarity_threshold' = 0
    /\ threads' = [threads EXCEPT ![tid].pc = "search2"]
    /\ UNCHANGED <<disk, image_features, image_dir, put_log, last, ioVars,
                   search_queue, search_results, appFrame>>

\* perform_search(threshold=0): the search of the fallback
ThreadSearchAgain(tid) ==
    LET t == threads[tid]
        r == SearchStep(t, t.pc = "search2_text")
    IN  /\ \/ t.pc = "search2" /\ t.search_type # "Hybrid"
           \/ t.pc = "search2_text"
        /\ \E o \in Outcomes(t, r) :
              threads' = [threads EXCEPT ![tid].pc = "restore",
                             ![tid].image_results = <<>>,
                             ![tid].raised = o.raised, ![tid].all_results = o.val]
        /\ UNCHANGED <<engineVars, ioVars, search_queue, search_results, appFrame>>

\* a faulty variant of ThreadRestoreThreshold: the threshold is put back
\* after the try block instead of in a finally clause, that is only when
\* the search returned
ThreadRestoreThreshold_on_return(tid) ==
    LET t == threads[tid]
    IN  /\ t.pc = "restore"
        /\ IF t.raised
           THEN /\ threads' = [threads EXCEPT ![tid] = IdleThread]
                /\ search_queue' = Append(search_queue, Message("error", <<>>, 0))
                /\ UNCHANGED user_similarity_threshold
           ELSE /\ threads' = [threads EXCEPT ![tid].pc = "adjust"]
                /\ user_similarity_threshold' = t.original_threshold
                /\ UNCHANGED search_queue
        /\ UNCHANGED <<disk, image_features, image_dir, put_log, last, ioVars,
                       search_results, appFrame>>

\* perform_search(threshold=0): the finally clause; an exception of the
\* search then reaches search_thread, which puts the 'error' message
ThreadRestoreThreshold(tid) ==
    LET t == threads[tid]
    IN  /\ t.pc = "restore"
        /\ user_similarity_threshold' = t.original_threshold
        /\ IF t.raised
           THEN /\ threads' = [threads EXCEPT ![tid] = IdleThread]
                /\ search_queue' = Append(search_queue, Message("error", <<>>, 0))
           ELSE /\ threads' = [threads EXCEPT ![tid].pc = "adjust"]
                /\ UNCHANGED search_queue
        /\ UNCHANGED <<disk, image_features, image_dir, put_log, last, ioVars,
                       search_results, appFrame>>

\* sorted([score for _, score in all_results], reverse=True)[4]
fifth_highest_score(all_results) == SortedDescending(all_results)[5][2]

\* a faulty variant of new_threshold: without the clamp at 0
new_threshold_unclamped(all_results) == fifth_highest_score(all_results) - 100

\* new_threshold = max(0, fifth_highest_score - 0.01)
new_threshold(all_results) == Max2(0, fifth_highest_score(all_results) - 100)

\* adjust_threshold_and_search, after its perform_search returned
ThreadAdjust(tid) ==
    LET t == threads[tid]
    IN  /\ t.pc = "adjust"
        /\ IF Len(t.all_results) >= 5
           THEN LET nt == new_threshold(t.all_results)
                    filtered_results == SelectSeq(t.all_results, LAMBDA e : e[2] >= nt)
                IN  /\ similarity_threshold' = nt
                    /\ user_similarity_threshold' = nt
                    /\ search_results' = filtered_results
                    /\ search_queue' = Append(search_queue,
                                              Message("adjusted", filtered_results, nt))
                    /\ threads' = [threads EXCEPT ![tid] = IdleThread]
           ELSE /\ search_results' = t.all_results
                /\ search_queue' = Append(search_queue,
                                          Message("adjusted", t.all_results, 0))
                /\ threads' = [threads EXCEPT ![tid] = IdleThread]
                /\ UNCHANGED <<similarity_threshold, user_similarity_threshold>>
        /\ UNCHANGED <<disk, image_features, image_dir, put_log, last, ioVars,
                       sample_image_path, search_entry, switches, search_pollers, shown>>

\* check_search_status, when the queue holds a message: it is displayed and
\* the poller ends (with an empty queue the timer is set again)
CheckSearchStatus ==
    /\ search_pollers > 0
    /\ search_queue # <<>>
    /\ shown' = Head(search_queue).kind
    /\ search_queue' = Tail(search_queue)
    /\ search_pollers' = search_pollers - 1
    /\ UNCHANGED <<engineVars, ioVars, similarity_threshold, sample_image_path, search_entry,
                   switches, search_results, threads>>

NextApp ==
    \/ \E t \in SliderThresholds : UpdateSimilarityValue(t)
    \/ \E p \in SampleFiles : FilePickerResult(p)
    \/ \E s \in EntryTexts : OnTextFieldChange(s)
    \/ \E w \in {"text", "image", "hybrid"} : UpdateSearchType(w)
    \/ SearchImagesRejected
    \/ \E tid \in DOMAIN threads : SearchImages(tid)
    \/ \E tid \in DOMAIN threads : ThreadSearchImage(tid)
    \/ \E tid \in DOMAIN threads : ThreadSearch(tid)
    \/ \E tid \in DOMAIN threads : ThreadSaveThreshold(tid)
    \/ \E tid \in DOMAIN threads : ThreadOverrideThreshold(tid)
    \/ \E tid \in DOMAIN threads : ThreadSearchAgain(tid)
    \/ \E tid \in DOMAIN threads : ThreadRestoreThreshold(tid)
    \/ \E tid \in DOMAIN threads : ThreadAdjust(tid)
    \/ CheckSearchStatus

SpecApp == InitApp /\ [][NextApp]_vars

\* The search path alone: the user has chosen the search type, the query and
\* the threshold before the first search, and searches with them.  The file
\* of the sample image may be damaged and restored meanwhile.
InitQuery ==
    /\ disk = InitialDisk
    /\ \E c \in CacheFiles :
          /\ image_features = load_cache(<<>>, None, c).image_features
          /\ image_dir = load_cache(<<>>, None, c).image_dir
    /\ user_similarity_threshold = 0
    /\ put_log = [p \in KeySet(image_features) |-> DictGet(image_features, p)]
    /\ last = [op |-> "init", arg |-> None, pre_features |-> <<>>,
               pre_dir |-> None, ret |-> Return(<<>>)]
    /\ similarity_threshold \in {1500} \cup SliderThresholds
    /\ sample_image_path \in SampleFiles
    /\ search_entry \in EntryTexts \ {""}
    /\ \E on \in {"text", "image", "hybrid"} :
          switches = [text |-> on = "text", image |-> on = "image",
                      hybrid |-> on = "hybrid"]
    /\ search_queue = <<>>
    /\ search_results = <<>>
    /\ search_pollers = 0
    /\ threads = [i \in 1..MaxSearchThreads |-> IdleThread]
    /\ shown = "none"
    /\ IoStart

NextQuery ==
    \/ \E p \in SampleFiles : \E c \in {InitialImage(p), Corrupt} : EditFile(p, c)
    \/ \E tid \in DOMAIN threads : SearchImages(tid)
    \/ \E tid \in DOMAIN threads : ThreadSearchImage(tid)
    \/ \E tid \in DOMAIN threads : ThreadSearch(tid)
    \/ \E tid \in DOMAIN threads : ThreadSaveThreshold(tid)
    \/ \E tid \in DOMAIN threads : ThreadOverrideThreshold(tid)
    \/ \E tid \in DOMAIN threads : ThreadSearchAgain(tid)
    \/ \E tid \in DOMAIN threads : ThreadRestoreThreshold(tid)
    \/ \E tid \in DOMAIN threads : ThreadAdjust(tid)
    \/ CheckSearchStatus

SpecQuery == InitQuery /\ [][NextQuery]_vars

(***************************************************************************)
(* The adaptive fallback                                                   *)
(***************************************************************************)

\* the n-th highest of the scores of a result list, duplicates counted
NthHighest(results, n) ==
    CHOOSE s \in {results[i][2] : i \in DOMAIN results} :
        /\ Cardinality({i \in DOMAIN results : results[i][2] > s}) < n
        /\ Cardinality({i \in DOMAIN results : results[i][2] >= s}) >= n

\* the step in which thread tid leaves adjust_threshold_and_search
AdjustStep(tid) == threads[tid].pc = "adjust" /\ threads'[tid].pc = "idle"

\* the message the step has put on the queue
PutMessage == search_queue'[Len(search_queue')]

\* the message reports the threshold nt with exactly the entries of the pool
\* that score at least nt, five or more of them
ReportsFallback(pool, nt) ==
    /\ PutMessage.kind = "adjusted"
    /\ PutMessage.threshold = nt
    /\ Len(PutMessage.results) >= 5
    /\ Len(PutMessage.results) = Cardinality({i \in DOMAIN pool : pool[i][2] >= nt})
    /\ {PutMessage.results[i] : i \in DOMAIN PutMessage.results}
          = {pool[i] : i \in {j \in DOMAIN pool : pool[j][2] >= nt}}

\* C10 as stated: when the first search found nothing and the search with
\* threshold 0 returned at least 5 entries, the new threshold is the
\* fifth-highest score minus 0.01, and it is reported with exactly the
\* entries that score at least that much, at least 5 of them.
C10_Claimed ==
    [][\A tid \in 1..MaxSearchThreads :
          (AdjustStep(tid) /\ Len(threads[tid].all_results) >= 5)
             => ReportsFallback(threads[tid].all_results,
                                NthHighest(threads[tid].all_results, 5) - 100)]_vars

\* C10: when the first search found nothing and the search with threshold 0
\* returned at least 5 entries, the new threshold is the fifth-highest score
\* minus 0.01, or 0 where that is negative, and it is reported with exactly
\* the entries that score at least that much, at least 5 of them.
C10_LargePoolFallback ==
    [][\A tid \in 1..MaxSearchThreads :
          (AdjustStep(tid) /\ Len(threads[tid].all_results) >= 5)
             => ReportsFallback(threads[tid].all_results,
                                Max2(0, NthHighest(threads[tid].all_results, 5) - 100))]_vars

\* a fallback has reported a positive new threshold with five results, an
\* indexed image being left out
C10_Witness ==
    \E i \in DOMAIN search_queue :
        /\ search_queue[i].kind = "adjusted"
        /\ search_queue[i].threshold > 0
        /\ Len(search_queue[i].results) = 5
        /\ search_results = search_queue[i].results
        /\ Len(image_features) > 6

\* a fallback has reported the new threshold 0 with five results
C10_WitnessClamped ==
    \E i \in DOMAIN search_queue :
        /\ search_queue[i].kind = "adjusted"
        /\ search_queue[i].threshold = 0
        /\ Len(search_queue[i].results) >= 5

-----------------------------------------------------------------------------
(* Search requests: what search_images does with any inputs of the user *)

\* the folders when the search is made: B1 may have become unreadable
RequestDisks == {InitialDisk, [InitialDisk EXCEPT ![<<"B", 1>>] = Corrupt]}

\* the caches the application may have loaded: also the cache of folder B
\* alone, written with every file readable or with B1 unreadable
RequestCaches ==
    CacheFiles \cup
    {get_cache(index_images(<<>>, d, "B"), "B") : d \in RequestDisks}

\* the application when the user presses the search button: the index is
\* what the cache gave, the inputs are whatever the user has entered
InitRequest ==
    /\ disk \in RequestDisks
    /\ \E c \in RequestCaches :
          /\ image_features = load_cache(<<>>, None, c).image_features
          /\ image_dir = load_cache(<<>>, None, c).image_dir
    /\ user_similarity_threshold = 0
    /\ put_log = [p \in KeySet(image_features) |-> DictGet(image_features, p)]
    /\ last = [op |-> "init", arg |-> None, pre_features |-> <<>>,
               pre_dir |-> None, ret |-> Return(<<>>)]
    /\ similarity_threshold \in {1500, 10000}
    /\ sample_image_path \in {NoFile, <<"B", 1>>}
    /\ search_entry \in {"", " ", "sky", "bird", "dog"}
    /\ \E on \in {"text", "image", "hybrid"} :
          switches = [text |-> on = "text", image |-> on = "image",
                      hybrid |-> on = "hybrid"]
    /\ search_queue = <<>>
    /\ search_results = <<>>
    /\ search_pollers = 0
    /\ threads = [i \in 1..MaxSearchThreads |-> IdleThread]
    /\ shown = "none"
    /\ IoStart

NextRequest ==
    \/ SearchImagesRejected
    \/ \E tid \in DOMAIN threads : SearchImages(tid)
    \/ \E tid \in DOMAIN threads : ThreadSearchImage(tid)
    \/ \E tid \in DOMAIN threads : ThreadSearch(tid)
    \/ \E tid \in DOMAIN threads : ThreadSaveThreshold(tid)
    \/ \E tid \in DOMAIN threads : ThreadOverrideThreshold(tid)
    \/ \E tid \in DOMAIN threads : ThreadSearchAgain(tid)
    \/ \E tid \in DOMAIN threads : ThreadRestoreThreshold(tid)
    \/ \E tid \in DOMAIN threads : ThreadAdjust(tid)
    \/ CheckSearchStatus

SpecRequest == InitRequest /\ [][NextRequest]_vars

\* the paths of a result list
ResultPaths(results) == {results[i][1] : i \in DOMAIN results}

\* C11: when fewer than 5 images are indexed and the first search found
\* nothing, the fallback reports threshold 0 with every indexed image,
\* whatever its score.
C11_Claimed ==
    [][\A tid \in 1..MaxSearchThreads :
          (AdjustStep(tid) /\ Len(image_features) < 5)
             => /\ PutMessage.kind = "adjusted"
                /\ PutMessage.threshold = 0
                /\ ResultPaths(PutMessage.results) = KeySet(image_features)]_vars

\* C12: with a non-empty index, the result list of every 'finished' and
\* every 'adjusted' message delivered to the foreground is non-empty.
C12_Claimed ==
    \A i \in DOMAIN search_queue :
        (search_queue[i].kind \in {"finished", "adjusted"} /\ image_features # <<>>)
            => search_queue[i].results # <<>>

-----------------------------------------------------------------------------
(* Indexing a folder that holds files that do not decode *)

\* the candidates index_images collects from a folder, as a set
CandidateSet(folder_path) ==
    {ImagePaths(folder_path)[k] : k \in DOMAIN ImagePaths(folder_path)}

-----------------------------------------------------------------------------
(* ImageSearchApp: start-up, indexing a folder, and the cache file *)

\* how many times the application is started
MaxStarts == 2
\* how many messages of earlier indexing runs the queue may hold when the
\* next run is started
MaxStale == 1

\* The text of the cache file is modelled piece by piece: one piece per item
\* of the dict, and the closing brace.  The buffered text of json.dump
\* reaches the file in two writes: the items, then the closing brace.  A
\* piece no one has written, below a piece written at a higher offset, is a
\* hole.
EndKey == <<"}", 0>>
HoleKey == <<"hole", 0>>

\* json.dump(cache_data, f): the pieces written, in order
json_dump(cache_data) == cache_data \o << <<EndKey, JNull>> >>

\* a write of the pieces out[lo..hi] at their offsets in the file
WriteAt(tokens, out, lo, hi) ==
    [j \in 1..Max2(Len(tokens), hi) |->
        IF lo <= j /\ j <= hi THEN out[j]
        ELSE IF j <= Len(tokens) THEN tokens[j] ELSE <<HoleKey, JNull>>]

\* the dict a JSON object gives: a repeated key keeps its place and takes
\* the last value
RECURSIVE DictOf(_, _)
DictOf(d, items) ==
    IF items = <<>> THEN d
    ELSE DictOf(DictSet(d, Head(items)[1], Head(items)[2]), Tail(items))

\* json.load(f): JSONDecodeError unless the text is one complete object
json_load(file) ==
    LET n == Len(file.tokens)
    IN  IF \/ n = 0
           \/ file.tokens[n][1] # EndKey
           \/ \E j \in 1..(n - 1) : file.tokens[j][1] \in {EndKey, HoleKey}
        THEN Raise
        ELSE Return(DictOf(<<>>, SubSeq(file.tokens, 1, n - 1)))

\* a faulty variant of App_load_cache: only the JSONDecodeError is caught
App_load_cache_decode_only(features, dir, file) ==
    IF ~file.exists
    THEN [raised |-> FALSE, status |-> "missing", image_features |-> features,
          image_dir |-> dir]
    ELSE LET j == json_load(file)
             r == load_cache(features, dir, j.val)
         IN  IF j.raised
             THEN [raised |-> FALSE, status |-> "decode_error",
                   image_features |-> <<>>, image_dir |-> dir]
             ELSE [raised |-> r.raised, status |-> IF r.raised THEN "error" ELSE "loaded",
                   image_features |-> r.image_features, image_dir |-> r.image_dir]

\* ImageSearchApp.load_cache(): whether an exception escapes it, the branch
\* it took, and the engine's fields after it
App_load_cache(features, dir, file) ==
    IF ~file.exists
    THEN [raised |-> FALSE, status |-> "missing", image_features |-> features,
          image_dir |-> dir]
    ELSE LET j == json_load(file)
             r == load_cache(features, dir, j.val)
         IN  IF j.raised
             THEN [raised |-> FALSE, status |-> "decode_error",
                   image_features |-> <<>>, image_dir |-> dir]
             ELSE IF r.raised
             THEN [raised |-> FALSE, status |-> "error",
                   image_features |-> <<>>, image_dir |-> r.image_dir]
             ELSE [raised |-> FALSE, status |-> "loaded",
                   image_features |-> r.image_features, image_dir |-> r.image_dir]

\* a faulty variant of Progress: a whole batch is counted for the last one
ProgressWholeBatch(i, batch, total_images) == <<i + batch_size, total_images>>

\* progress = (i + len(batch)) / total_images, as numerator and denominator
Progress(i, batch, total_images) == <<i + Len(batch), total_images>>

\* what the indexing path leaves alone
indexingFrame ==
    <<user_similarity_threshold, put_log, last, similarity_threshold,
      sample_image_path, search_entry, switches, search_queue, search_results,
      search_pollers, threads, shown, tk>>

\* the application is started for the first time: any of the first two
\* files of folder A may be one that does not decode; the cache file is
\* absent, or was written by an earlier run, or holds a ragged list for a
\* vector
InitIndexing ==
    /\ disk \in {[p \in AllFiles |-> IF p \in F THEN Corrupt ELSE InitialImage(p)] :
                    F \in SUBSET {<<"A", 1>>, <<"A", 2>>}}
    /\ image_features = <<>>
    /\ image_dir = None
    /\ user_similarity_threshold = 0
    /\ put_log = [p \in {} |-> None]
    /\ last = [op |-> "init", arg |-> None, pre_features |-> <<>>,
               pre_dir |-> None, ret |-> Return(<<>>)]
    /\ AppStart
    /\ \E b \in {get_cache(index_images(<<>>, InitialDisk, "B"), "B")} :
          \/ cache_file = NoCacheFile
          \/ cache_file = [exists |-> TRUE, tokens |-> json_dump(b)]
          \/ cache_file =
                [exists |-> TRUE,
                 tokens |-> json_dump(DictSet(b, <<"B", 1>>,
                                              JList(<<JNum(6), JList(<<JNum(8)>>)>>)))]
    /\ indexing_queue = <<>>
    /\ indexer = IdleIndexer
    /\ tk = TkStart
    /\ app = AppInit
    /\ saves = [s \in Savers |-> IdleSave]

\* initialize(): load_cache, then check_cache_status.  An exception that
\* escapes load_cache ends initialize.
Initialize ==
    LET r == App_load_cache(image_features, image_dir, cache_file)
    IN  /\ app.phase = "init"
        /\ image_features' = r.image_features
        /\ image_dir' = r.image_dir
        /\ app' = [app EXCEPT !.phase = IF r.raised THEN "failed" ELSE "running",
                               !.cache_status = r.status]
        /\ UNCHANGED <<disk, cache_file, indexing_queue, indexer, saves, indexingFrame>>

\* folder_picker_result: index_and_display_images starts the indexing thread
\* and check_indexing_status.  The model follows one indexing at a time:
\* the thread and the polling of the one before are over, and the queue
\* holds at most MaxStale messages that were left behind.
FolderPickerResult(path) ==
    /\ app.phase = "running"
    /\ indexer.pc \in {"idle", "done", "failed", "save_failed"}
    /\ app.pollers = 0
    /\ Len(indexing_queue) <= MaxStale
    /\ image_dir' = path
    /\ indexer' = [IdleIndexer EXCEPT !.pc = "batch", !.folder_path = path,
                                      !.image_paths = ImagePaths(path)]
    /\ app' = [app EXCEPT !.pollers = @ + 1, !.progress_bar = <<0, 1>>]
    /\ UNCHANGED <<disk, image_features, cache_file, indexing_queue, saves,
                   indexingFrame>>

\* index_images: one turn of the loop over the batches.  The encoder may
\* fail on a batch that holds a decodable image; the exception leaves
\* index_batch and index_images, and index_thread puts the 'error' message.
IndexBatch ==
    LET total_images == Len(indexer.image_paths)
        hi == IF indexer.i + batch_size <= total_images THEN indexer.i + batch_size
              ELSE total_images
        batch == SubSeq(indexer.image_paths, indexer.i + 1, hi)
        progress == Progress(indexer.i, batch, total_images)
    IN  /\ indexer.pc = "batch"
        /\ indexer.i < total_images
        /\ \E encoded \in {TRUE} \cup {FALSE : k \in {j \in DOMAIN batch :
                                                     Decodable(disk, batch[j])}} :
              IF encoded
              THEN /\ image_features' = index_batch(image_features, disk, batch)
                   /\ indexing_queue' =
                         Append(indexing_queue, [kind |-> "progress", data |-> progress])
                   /\ indexer' = [indexer EXCEPT !.i = @ + batch_size,
                                                 !.reported = Append(@, progress)]
              ELSE /\ indexing_queue' =
                         Append(indexing_queue, [kind |-> "error", data |-> <<0, 1>>])
                   /\ indexer' = [indexer EXCEPT !.pc = "failed"]
                   /\ UNCHANGED image_features
        /\ UNCHANGED <<disk, image_dir, cache_file, app, saves, indexingFrame>>

\* index_thread, after index_images has returned: the 'finished' message
IndexFinished ==
    /\ indexer.pc = "batch"
    /\ indexer.i >= Len(indexer.image_paths)
    /\ indexing_queue' = Append(indexing_queue, [kind |-> "finished", data |-> <<0, 1>>])
    /\ indexer' = [indexer EXCEPT !.pc = "save"]
    /\ UNCHANGED <<disk, image_features, image_dir, cache_file, app, saves,
                   indexingFrame>>

\* check_indexing_status, when the queue holds a message: a progress value
\* is shown and the polling goes on; 'finished' and 'error' end it
CheckIndexingStatus ==
    LET m == Head(indexing_queue)
    IN  /\ app.phase = "running"
        /\ app.pollers > 0
        /\ indexing_queue # <<>>
        /\ indexing_queue' = Tail(indexing_queue)
        /\ app' = IF m.kind = "progress"
                  THEN [app EXCEPT !.progress_bar = m.data]
                  ELSE [app EXCEPT !.pollers = @ - 1, !.notice = m.kind]
        /\ UNCHANGED <<disk, image_features, image_dir, cache_file, indexer, saves,
                       indexingFrame>>

\* save_cache, up to open(cache_file, 'w'): the cache is taken from the
\* engine and the file is truncated.  The indexing thread calls it after
\* the 'finished' message, page.on_close when the window is closed.  When
\* open fails in the indexing thread (the file cannot be written), the
\* exception reaches the except clause of index_thread, which puts 'error'.
SaveOpen(s) ==
    /\ saves[s].pc = "idle"
    /\ \E opened \in IF s = "index_thread" THEN BOOLEAN ELSE {TRUE} :
          IF opened
          THEN /\ IF s = "index_thread"
                  THEN indexer.pc = "save" /\ indexer' = [indexer EXCEPT !.pc = "saving"]
                                           /\ UNCHANGED app
                  ELSE app.phase = "running" /\ app' = [app EXCEPT !.phase = "closing"]
                                             /\ UNCHANGED indexer
               /\ saves' = [saves EXCEPT ![s] =
                               [pc |-> "writing", k |-> 0,
                                out |-> json_dump(get_cache(image_features, image_dir))]]
               /\ cache_file' = [exists |-> TRUE, tokens |-> <<>>]
               /\ UNCHANGED indexing_queue
          ELSE /\ indexer.pc = "save"
               /\ indexer' = [indexer EXCEPT !.pc = "save_failed"]
               /\ indexing_queue' =
                     Append(indexing_queue, [kind |-> "error", data |-> <<0, 1>>])
               /\ UNCHANGED <<app, saves, cache_file>>
    /\ UNCHANGED <<disk, image_features, image_dir, indexingFrame>>

\* the process ends: its threads and its memory are gone, the file stays
Stopped ==
    /\ image_features' = <<>>
    /\ image_dir' = None
    /\ indexing_queue' = <<>>
    /\ indexer' = IdleIndexer
    /\ saves' = [s \in Savers |-> IdleSave]
    /\ app' = [AppInit EXCEPT !.phase = "stopped", !.starts = app.starts]

\* save_cache, json.dump: the next write reaches the file; after the last
\* one the file is closed.  The on_close handler over, the process ends.
SaveWrite(s) ==
    LET w == saves[s]
        hi == IF w.k + 1 < Len(w.out) THEN Len(w.out) - 1 ELSE Len(w.out)
        last_piece == hi = Len(w.out)
    IN  /\ w.pc = "writing"
        /\ cache_file' = [cache_file EXCEPT
                             !.tokens = WriteAt(@, w.out, w.k + 1, hi)]
        /\ IF last_piece /\ s = "on_close"
           THEN Stopped
           ELSE /\ saves' = [saves EXCEPT ![s] =
                                IF last_piece THEN IdleSave ELSE [w EXCEPT !.k = hi]]
                /\ indexer' = IF last_piece THEN [indexer EXCEPT !.pc = "done"]
                              ELSE indexer
                /\ UNCHANGED <<image_features, image_dir, indexing_queue, app>>
        /\ UNCHANGED <<disk, indexingFrame>>

\* the process is killed, or the machine goes down
Crash ==
    /\ app.phase \in {"running", "closing"}
    /\ Stopped
    /\ UNCHANGED <<disk, cache_file, indexingFrame>>

\* the application is started again: ImageSearchApp.__init__
Restart ==
    /\ app.phase = "stopped"
    /\ app.starts < MaxStarts
    /\ app' = [AppInit EXCEPT !.starts = app.starts + 1]
    /\ UNCHANGED <<disk, image_features, image_dir, cache_file, indexing_queue,
                   indexer, saves, indexingFrame>>

NextIndexing ==
    \/ Initialize
    \/ \E path \in Folders : FolderPickerResult(path)
    \/ IndexBatch
    \/ IndexFinished
    \/ CheckIndexingStatus
    \/ \E s \in Savers : SaveOpen(s)
    \/ \E s \in Savers : SaveWrite(s)
    \/ Crash
    \/ Restart

SpecIndexing == InitIndexing /\ [][NextIndexing]_vars

\* the smaller of two numbers
Min2(a, b) == IF a <= b THEN a ELSE b

\* C14: progress_callback is called once after each batch with (candidates
\* processed so far) / (total candidates); the values reported lie in
\* [0, 1] and never decrease, and once the last batch is over the last value
\* is 1.
C14_Progress ==
    LET total == Len(indexer.image_paths)
        reported == indexer.reported
        batches_over == (Min2(indexer.i, total) + batch_size - 1) \div batch_size
    IN  indexer.pc # "idle" =>
           /\ Len(reported) = batches_over
           /\ \A k \in DOMAIN reported :
                  /\ reported[k] = <<Min2(k * batch_size, total), total>>
                  /\ reported[k][2] > 0
                  /\ 0 <= reported[k][1] /\ reported[k][1] <= reported[k][2]
           /\ \A k \in 1..(Len(reported) - 1) :
                  reported[k][1] * reported[k + 1][2] <= reported[k + 1][1] * reported[k][2]
           /\ (indexer.pc \in {"save", "saving", "done"} /\ total > 0) =>
                  /\ reported # <<>>
                  /\ reported[Len(reported)][1] = reported[Len(reported)][2]

\* an indexing run is over whose last batch was not a full one: three
\* values were reported, the last one 5/5
C14_Witness ==
    /\ indexer.pc = "done"
    /\ Len(indexer.image_paths) % batch_size # 0
    /\ Len(indexer.reported) > 2
    /\ indexer.reported[Len(indexer.reported)] =
          <<Len(indexer.image_paths), Len(indexer.image_paths)>>

\* C15: when the encoder has failed on one batch of an indexing run, the
\* run goes on: once the indexing thread is over, every decodable candidate
\* of the batches after the failed one is in the index.
C15_Claimed ==
    indexer.pc = "failed" =>
        \A k \in DOMAIN indexer.image_paths :
            (k > indexer.i + batch_size /\ Decodable(disk, indexer.image_paths[k]))
                => indexer.image_paths[k] \in KeySet(image_features)

-----------------------------------------------------------------------------
(* ImageSearchUI (ui.py): the Tk front end of the engine *)

\* the window with what the user has entered: the search type, the text,
\* the sample image and the threshold
InitUI ==
    /\ disk \in {InitialDisk,
                 [InitialDisk EXCEPT ![<<"B", 1>>] = Corrupt, ![<<"B", 2>>] = Corrupt]}
    /\ image_features = <<>>
    /\ image_dir = None
    /\ user_similarity_threshold = 0
    /\ put_log = [p \in {} |-> None]
    /\ last = [op |-> "init", arg |-> None, pre_features |-> <<>>,
               pre_dir |-> None, ret |-> Return(<<>>)]
    /\ AppStart
    /\ cache_file = NoCacheFile
    /\ indexing_queue = <<>>
    /\ indexer = IdleIndexer
    /\ app = AppInit
    /\ saves = [s \in Savers |-> IdleSave]
    /\ \E ty \in {"Text", "Image Sample", "Hybrid"}, text \in {"", "sky", "dog"},
          sample \in {NoFile, <<"B", 1>>}, th \in {0, 5000} :
          tk = [TkStart EXCEPT !.search_type_var = ty, !.text_search_var = text,
                               !.sample_image = sample, !.similarity_threshold = th]

\* what ImageSearchUI leaves alone
tkFrame ==
    <<disk, image_dir, user_similarity_threshold, put_log, last, similarity_threshold,
      sample_image_path, search_entry, switches, search_queue, search_results,
      search_pollers, threads, shown, cache_file, indexing_queue, indexer, app, saves>>

\* select_search_folder: a folder is chosen and the indexing thread started.
\* The model follows one indexing thread at a time.
TkSelectSearchFolder(folder_path) ==
    /\ ~tk.indexing
    /\ tk' = [tk EXCEPT !.search_folder = folder_path, !.indexing = TRUE]
    /\ UNCHANGED <<image_features, tkFrame>>

\* the indexing thread: index_images, then indexing_finished
TkIndexImages ==
    /\ tk.indexing
    /\ image_features' = index_images(image_features, disk, tk.search_folder)
    /\ tk' = [tk EXCEPT !.indexing = FALSE]
    /\ UNCHANGED tkFrame

\* search_images: a warning, or the search thread is started.  The model
\* follows one search thread at a time.
TkSearchImages ==
    LET search_type == tk.search_type_var
        search_text == tk.text_search_var
    IN  /\ tk.pc = "idle"
        /\ tk' = IF \/ tk.search_folder = ""
                    \/ search_type \in {"Image Sample", "Hybrid"} /\ tk.sample_image = NoFile
                    \/ search_type \in {"Text", "Hybrid"} /\ search_text = ""
                 THEN [tk EXCEPT !.displayed = "warning", !.results = <<>>]
                 ELSE [tk EXCEPT !.pc = "search", !.search_type = search_type,
                                 !.sample = tk.sample_image, !.search_text = search_text,
                                 !.displayed = "searching", !.results = <<>>]
        /\ UNCHANGED <<image_features, tkFrame>>

\* perform_search, then display_results.  An exception of the search ends
\* the thread; nothing is displayed then.
TkPerformSearch ==
    LET th == user_similarity_threshold
        hybrid == search_hybrid(image_features, disk, th, th, tk.sample, tk.search_text)
        outcomes ==
            IF tk.search_type = "Text"
            THEN {search_by_text(image_features, th, tk.search_text)}
            ELSE IF tk.search_type = "Image Sample"
            THEN {search_by_image(image_features, disk, th, tk.sample)}
            ELSE IF hybrid.raised THEN {Raise}
            ELSE {Return(res) : res \in hybrid.val}
    IN  /\ tk.pc = "search"
        /\ \E results \in outcomes :
              tk' = IF results.raised
                    THEN [tk EXCEPT !.pc = "idle"]
                    ELSE [tk EXCEPT !.pc = "idle", !.displayed = "results",
                             !.results = SelectSeq(results.val,
                                 LAMBDA e : e[2] >= tk.similarity_threshold)]
        /\ UNCHANGED <<image_features, tkFrame>>

NextUI ==
    \/ \E folder_path \in Folders : TkSelectSearchFolder(folder_path)
    \/ TkIndexImages
    \/ TkSearchImages
    \/ TkPerformSearch

SpecUI == InitUI /\ [][NextUI]_vars

\* C16: no search thread, of ImageSearchApp or of ImageSearchUI, runs for a
\* request made while the index has no records, and no result list is
\* displayed for such a request.
C16_Claimed ==
    /\ \A tid \in 1..MaxSearchThreads :
          threads[tid].pc # "idle" => image_features # <<>>
    /\ tk.pc = "search" => image_features # <<>>
    /\ tk.displayed = "results" => image_features # <<>>

-----------------------------------------------------------------------------
(* Requests with invalid inputs *)

\* the inputs search_images reads are invalid: no sample image for an image
\* or hybrid search, or no text for a text or hybrid search
InvalidInput ==
    \/ SearchType \in {"Image", "Hybrid"} /\ sample_image_path = NoFile
    \/ SearchType \in {"Text", "Hybrid"} /\ strip(search_entry) = ""

\* C17: search_images called with invalid inputs shows the validation error
\* and starts no search thread and no poller; the engine's threshold and the
\* search queue stay as they are.
C17_InvalidInputRejected ==
    [][(InvalidInput /\ (SearchImagesRejected
                         \/ \E tid \in DOMAIN threads : SearchImages(tid)))
          => /\ shown' = "invalid"
             /\ UNCHANGED <<threads, search_pollers, user_similarity_threshold,
                            search_queue, image_features>>]_vars

\* a hybrid request without text was refused over a non-empty index: the
\* error is shown, no thread runs, nothing is queued
C17_Witness ==
    /\ shown = "invalid"
    /\ SearchType = "Hybrid"
    /\ sample_image_path # NoFile
    /\ strip(search_entry) = ""
    /\ image_features # <<>>
    /\ \A tid \in 1..MaxSearchThreads : threads[tid].pc = "idle"
    /\ search_queue = <<>>
    /\ user_similarity_threshold = 0

-----------------------------------------------------------------------------
(* A query image that does not decode *)

\* the request is an image or hybrid search whose sample image does not
\* decode
UndecodableQuery ==
    /\ SearchType \in {"Image", "Hybrid"}
    /\ sample_image_path # NoFile
    /\ ~Decodable(disk, sample_image_path)

\* C18: with a query image that does not decode, the first search of a
\* search thread raises and the thread ends with an 'error' message; no
\* thread goes on to the text search or to the fallback, and no 'finished'
\* or 'adjusted' message is ever queued or shown.
C18_UndecodableQuery ==
    [][UndecodableQuery =>
          /\ \A tid \in 1..MaxSearchThreads :
                (threads[tid].pc = "search" /\ threads'[tid] # threads[tid])
                   => /\ threads'[tid].pc = "idle"
                      /\ search_queue' =
                            Append(search_queue, Message("error", <<>>, 0))
          /\ \A tid \in 1..MaxSearchThreads : threads'[tid].pc \in {"idle", "search"}
          /\ \A i \in DOMAIN search_queue' : search_queue'[i].kind = "error"
          /\ shown' \in {"none", "invalid", "error"}
          /\ search_results' = <<>>]_vars

\* a hybrid search with a sample image that does not decode has ended: its
\* 'error' message was shown
C18_Witness ==
    /\ UndecodableQuery
    /\ SearchType = "Hybrid"
    /\ image_features # <<>>
    /\ shown = "error"
    /\ \A tid \in 1..MaxSearchThreads : threads[tid].pc = "idle"

-----------------------------------------------------------------------------
(* Loading and saving the cache file *)

\* the cache file cannot be parsed, or one of its values cannot be made a
\* tensor
Unusable(file) ==
    \/ json_load(file).raised
    \/ \E j \in DOMAIN file.tokens :
          /\ file.tokens[j][1] \notin {FolderPathKey, EndKey, HoleKey}
          /\ torch_tensor(file.tokens[j][2]).raised

\* C19: load_cache at start-up lets no exception escape, so that the
\* application goes on to run; with the cache file missing the index stays
\* empty, and with a file that cannot be parsed or converted the index is
\* empty afterwards.
C19_GracefulLoad ==
    [][(app.phase = "init" /\ app'.phase # "init") =>
          /\ app'.phase = "running"
          /\ ~cache_file.exists =>
                 image_features' = <<>> /\ app'.cache_status = "missing"
          /\ (cache_file.exists /\ Unusable(cache_file)) =>
                 image_features' = <<>> /\ app'.cache_status \in {"decode_error", "error"}]_vars

\* the application runs after it has found a cache file cut short by a
\* crash in the middle of a save: the index is empty
C19_Witness ==
    /\ app.phase = "running"
    /\ app.cache_status = "decode_error"
    /\ cache_file.exists /\ json_load(cache_file).raised
    /\ image_features = <<>>

\* C20: the cache file is at all times a complete snapshot: once it exists,
\* its text is one complete JSON object, also in the middle of a save_cache
\* call and after a crash.
C20_Claimed ==
    cache_file.exists => ~json_load(cache_file).raised

(***************************************************************************)
(* The shape of the stored vectors                                         *)
(***************************************************************************)

\* C22: every vector stored in the index has the same shape, whatever
\* sequence of index_images, index_single_image and load_cache calls built
\* the index.
C22_Claimed ==
    \A i, j \in DOMAIN image_features :
        image_features[i][2].shape = image_features[j][2].shape

(***************************************************************************)
(* The pairing of paths and vectors in a batch                             *)
(***************************************************************************)

\* C23: in every batch index_batch handles, whichever of its files fail to
\* decode, each decodable file of the batch gets the vector computed from
\* its own content, a file that does not decode gets none, and the records
\* of all other paths stay as they were.
C23_BatchPairing ==
    [][(indexer.pc = "batch" /\ indexer'.pc = "batch" /\ indexer'.i # indexer.i) =>
          LET hi == Min2(indexer.i + batch_size, Len(indexer.image_paths))
              batch == {indexer.image_paths[k] : k \in (indexer.i + 1)..hi}
              valid == {q \in batch : Decodable(disk, q)}
          IN  /\ \A q \in valid :
                     /\ q \in KeySet(image_features')
                     /\ DictGet(image_features', q) = BatchRow(disk[q])
              /\ \A q \in KeySet(image_features') \ valid :
                     /\ q \in KeySet(image_features)
                     /\ DictGet(image_features', q) = DictGet(image_features, q)]_vars

\* the first batch of folder A has been handled with its first file failing
\* to decode and its second file decoding: the second file has its own
\* vector and the first file has no record
C23_Witness ==
    /\ indexer.pc = "batch"
    /\ indexer.folder_path = "A"
    /\ indexer.i = batch_size
    /\ ~Decodable(disk, <<"A", 1>>)
    /\ Decodable(disk, <<"A", 2>>)
    /\ <<"A", 1>> \notin KeySet(image_features)
    /\ <<"A", 2>> \in KeySet(image_features)
    /\ DictGet(image_features, <<"A", 2>>) = BatchRow(disk[<<"A", 2>>])

(***************************************************************************)
(* Indexing only adds records                                              *)
(***************************************************************************)

\* C30: index_images and index_single_image remove no record: every path
\* indexed before the call is indexed after it, and the snapshot get_cache
\* returns afterwards holds a vector for every one of them, whatever folder
\* path it is saved with.
C30_IndexingNeverRemoves ==
    last.op \in {"index_images", "index_single_image"} =>
        /\ KeySet(last.pre_features) \subseteq KeySet(image_features)
        /\ KeySet(last.pre_features) \subseteq
               KeySet(get_cache(image_features, image_dir)) \ {FolderPathKey}
        /\ \A p \in KeySet(last.pre_features) :
               SnapshotTensor(get_cache(image_features, image_dir), p)
                   = DictGet(image_features, p)

\* folder B has been indexed after folder A, with B as the folder path of
\* the engine: the records of folder A are still in the index
C30_Witness ==
    /\ last.op = "index_images"
    /\ last.arg = "B"
    /\ image_dir = "B"
    /\ \E p \in KeySet(last.pre_features) : p[1] = "A"
    /\ \E p \in KeySet(image_features) : p[1] = "B" /\ p \notin KeySet(last.pre_features)
    /\ \A p \in KeySet(last.pre_features) : p \in KeySet(image_features)

(***************************************************************************)
(* Two searches at a time                                                  *)
(***************************************************************************)

\* The application with the index of folder B loaded from the cache, a text
\* in the search field and a sample image chosen: search_images is called again
\* while the thread of an earlier call runs, so that one search more than
\* MaxSearchThreads is followed at a time.
InitPair ==
    /\ disk = InitialDisk
    /\ image_features = index_images(<<>>, InitialDisk, "B")
    /\ image_dir = "B"
    /\ user_similarity_threshold = 0
    /\ put_log = [p \in KeySet(image_features) |-> DictGet(image_features, p)]
    /\ last = [op |-> "init", arg |-> None, pre_features |-> <<>>,
               pre_dir |-> None, ret |-> Return(<<>>)]
    /\ similarity_threshold \in {1500} \cup SliderThresholds
    /\ sample_image_path \in SampleFiles
    /\ search_entry \in EntryTexts \ {""}
    /\ \E on \in {"text", "image", "hybrid"} :
          switches = [text |-> on = "text", image |-> on = "image",
                      hybrid |-> on = "hybrid"]
    /\ search_queue = <<>>
    /\ search_results = <<>>
    /\ search_pollers = 0
    /\ threads = [i \in 1..(MaxSearchThreads + 1) |-> IdleThread]
    /\ shown = "none"
    /\ IoStart

SpecPair == InitPair /\ [][NextQuery]_vars

\* the message a Text search of the text in the search field delivers when
\* it runs alone with the configured threshold
AloneMessage ==
    LET query_text == strip(search_entry)
        results == search_by_text(image_features, similarity_threshold, query_text).val
        all_results == search_by_text(image_features, 0, query_text).val
    IN  IF results # <<>> THEN Message("finished", results, 0)
        ELSE IF Len(all_results) >= 5
        THEN Message("adjusted",
                     SelectSeq(all_results, LAMBDA e : e[2] >= new_threshold(all_results)),
                     new_threshold(all_results))
        ELSE Message("adjusted", all_results, 0)

\* C24: searches that run at the same time do not change the index, and
\* each delivers the message it would deliver when run alone with the
\* configured threshold (stated here for the Text searches).
C24_Claimed ==
    /\ image_features = index_images(<<>>, InitialDisk, "B")
    /\ switches.text =>
           \A k \in DOMAIN search_queue : search_queue[k] = AloneMessage

(***************************************************************************)
(* The thresholds after a fallback, and the threshold override             *)
(***************************************************************************)

\* C25: whenever the fallback delivers ('adjusted', (results, t)), the
\* application's similarity_threshold and the engine's
\* user_similarity_threshold both equal t afterwards, with at least 5
\* candidates and with fewer (t = 0).
C25_Claimed ==
    [][\A tid \in DOMAIN threads :
          AdjustStep(tid) =>
              /\ PutMessage.kind = "adjusted"
              /\ similarity_threshold' = PutMessage.threshold
              /\ user_similarity_threshold' = PutMessage.threshold]_vars

\* the positions of a thread inside perform_search(threshold=0)
InOverride == {"override", "search2", "search2_text", "restore"}

\* C26: perform_search with the threshold argument keeps the engine's
\* threshold of before the call and puts it back when the search has
\* returned and when it has raised: with one search running, the engine's
\* threshold is afterwards what search_images had set it to.  The search
\* without the argument does not change the engine's threshold.
C26_OverrideUndone ==
    [][\A tid \in DOMAIN threads :
          LET t == threads[tid]
              u == threads'[tid]
          IN  /\ (t.pc = "save" /\ u.pc # "save") =>
                     /\ u.original_threshold = user_similarity_threshold
                     /\ UNCHANGED user_similarity_threshold
              /\ (t.pc \in InOverride /\ u.pc \in InOverride) =>
                     u.original_threshold = t.original_threshold
              /\ (t.pc = "restore" /\ u.pc # "restore") =>
                     /\ user_similarity_threshold' = t.original_threshold
                     /\ Len(threads) = 1 =>
                            user_similarity_threshold' = similarity_threshold
              /\ (t.pc \in {"search", "search_text"} /\ u # t) =>
                     UNCHANGED user_similarity_threshold]_vars

\* perform_search(threshold=0) has returned from a call made while the
\* engine's threshold was above 0: the threshold is what it was
C26_Witness ==
    \E tid \in DOMAIN threads :
        /\ threads[tid].pc = "adjust"
        /\ threads[tid].original_threshold > 0
        /\ user_similarity_threshold = threads[tid].original_threshold

(***************************************************************************)
(* One message for each search                                             *)
(***************************************************************************)

\* C27: every search started is at any time either a running search thread
\* or one message on the search queue, so that each thread puts exactly one
\* message before it ends and each poller ends with the one message it
\* consumes; a message is 'finished' with a non-empty result, 'adjusted'
\* or 'error'.
C27_OneMessage ==
    /\ search_pollers =
           Len(search_queue) + Cardinality({tid \in DOMAIN threads : threads[tid].pc # "idle"})
    /\ \A k \in DOMAIN search_queue :
           /\ search_queue[k].kind \in {"finished", "adjusted", "error"}
           /\ search_queue[k].kind = "finished" => search_queue[k].results # <<>>

\* a search that went through the fallback has ended and its poller has
\* consumed the one 'adjusted' message: no thread runs, no poller is left
\* and the queue is empty
C27_Witness ==
    /\ \A tid \in DOMAIN threads : threads[tid].pc = "idle"
    /\ shown = "adjusted"
    /\ search_pollers = 0
    /\ search_queue = <<>>

(***************************************************************************)
(* The messages of an indexing thread                                      *)
(***************************************************************************)

\* C28: an indexing thread puts 'progress' messages and then exactly one
\* 'finished' or 'error' message and nothing after it, also when saving the
\* cache fails: only the last message of the queue is ever a terminal one,
\* and once the poller has consumed the terminal message and stopped, no
\* message is left in the queue for a later job.
C28_Claimed ==
    /\ \A k \in 1..(Len(indexing_queue) - 1) : indexing_queue[k].kind = "progress"
    /\ (app.phase = "running" /\ app.pollers = 0) => indexing_queue = <<>>

(***************************************************************************)
(* A session of the application: the handlers that select the search      *)
(* mode, and indexing while searches run                                   *)
(***************************************************************************)

\* The application runs after initialize() has loaded the cache of folder B;
\* the widgets are as create_layout built them.
InitSession ==
    /\ disk = InitialDisk
    /\ image_features = index_images(<<>>, InitialDisk, "B")
    /\ image_dir = "B"
    /\ user_similarity_threshold = 0
    /\ put_log = [p \in KeySet(image_features) |-> DictGet(image_features, p)]
    /\ last = [op |-> "init", arg |-> None, pre_features |-> <<>>,
               pre_dir |-> None, ret |-> Return(<<>>)]
    /\ AppStart
    /\ cache_file = [exists |-> TRUE,
                     tokens |-> json_dump(get_cache(image_features, image_dir))]
    /\ indexing_queue = <<>>
    /\ indexer = IdleIndexer
    /\ tk = TkStart
    /\ app = [AppInit EXCEPT !.phase = "running", !.cache_status = "loaded"]
    /\ saves = [s \in Savers |-> IdleSave]

\* on_sample_image_drop: the dragged path becomes the sample image; when the
\* image opens, the Image switch is selected and search_images is called
OnSampleImageDrop(p) ==
    /\ sample_image_path' = p
    /\ UNCHANGED <<disk, image_features, image_dir, put_log, last, ioVars,
                   similarity_threshold, search_entry, search_queue, search_results>>
    /\ IF Decodable(disk, p)
       THEN /\ switches' = [text |-> FALSE, image |-> TRUE, hybrid |-> FALSE]
            /\ IF validate_search_inputs("Image", strip(search_entry))'
               THEN /\ \E tid \in DOMAIN threads :
                          StartSearch(tid, "Image", strip(search_entry))
                    /\ UNCHANGED shown
               ELSE /\ shown' = "invalid"
                    /\ UNCHANGED <<user_similarity_threshold, threads, search_pollers>>
       ELSE UNCHANGED <<switches, user_similarity_threshold, threads, search_pollers,
                        shown>>

\* on_image_drop_to_search: for a path that exists the process_image thread
\* is started (the model follows one such thread at a time)
OnImageDropToSearch(p) ==
    /\ p \in DOMAIN disk
    /\ app.drop.pc = "idle"
    /\ app' = [app EXCEPT !.drop = [pc |-> "describe", image_path |-> p]]
    /\ UNCHANGED <<engineVars, cache_file, indexing_queue, indexer, tk, saves,
                   similarity_threshold, sample_image_path, search_entry, switches,
                   search_queue, search_results, search_pollers, threads, shown>>

\* process_image, statement by statement: the description of the image is
\* put into the search field and the Text switch is set, the Image switch
\* is cleared, the Hybrid switch is cleared, search_images is called.  An
\* image that does not open ends the thread with its exception.
ProcessImage ==
    LET d == app.drop
    IN  /\ d.pc # "idle"
        /\ IF d.pc = "describe"
           THEN /\ IF Decodable(disk, d.image_path)
                   THEN /\ \E description \in EntryTexts \ {""} :
                              search_entry' = description
                        /\ switches' = [switches EXCEPT !.text = TRUE]
                        /\ app' = [app EXCEPT !.drop.pc = "image_off"]
                   ELSE /\ app' = [app EXCEPT !.drop = AppInit.drop]
                        /\ UNCHANGED <<search_entry, switches>>
                /\ UNCHANGED <<user_similarity_threshold, threads, search_pollers, shown>>
           ELSE IF d.pc = "image_off"
           THEN /\ switches' = [switches EXCEPT !.image = FALSE]
                /\ app' = [app EXCEPT !.drop.pc = "hybrid_off"]
                /\ UNCHANGED <<search_entry, user_similarity_threshold, threads,
                               search_pollers, shown>>
           ELSE IF d.pc = "hybrid_off"
           THEN /\ switches' = [switches EXCEPT !.hybrid = FALSE]
                /\ app' = [app EXCEPT !.drop.pc = "search"]
                /\ UNCHANGED <<search_entry, user_similarity_threshold, threads,
                               search_pollers, shown>>
           ELSE /\ app' = [app EXCEPT !.drop = AppInit.drop]
                /\ UNCHANGED <<search_entry, switches>>
                /\ IF validate_search_inputs(SearchType, strip(search_entry))
                   THEN /\ \E tid \in DOMAIN threads :
                              StartSearch(tid, SearchType, strip(search_entry))
                        /\ UNCHANGED shown
                   ELSE /\ shown' = "invalid"
                        /\ UNCHANGED <<user_similarity_threshold, threads,
                                       search_pollers>>
        /\ UNCHANGED <<disk, image_features, image_dir, put_log, last, cache_file,
                       indexing_queue, indexer, tk, saves, similarity_threshold,
                       sample_image_path, search_queue, search_results>>

NextSession ==
    \/ \E t \in SliderThresholds : UpdateSimilarityValue(t)
    \/ \E s \in EntryTexts : OnTextFieldChange(s)
    \/ \E w \in {"text", "image", "hybrid"} : UpdateSearchType(w)
    \/ \E p \in SampleFiles \cup {NoFile} : OnSampleImageDrop(p)
    \/ \E p \in SampleFiles : OnImageDropToSearch(p)
    \/ ProcessImage
    \/ SearchImagesRejected
    \/ \E tid \in DOMAIN threads : SearchImages(tid)
    \/ \E tid \in DOMAIN threads : ThreadSearchImage(tid)
    \/ \E tid \in DOMAIN threads : ThreadSearch(tid)
    \/ \E tid \in DOMAIN threads : ThreadSaveThreshold(tid)
    \/ \E tid \in DOMAIN threads : ThreadOverrideThreshold(tid)
    \/ \E tid \in DOMAIN threads : ThreadSearchAgain(tid)
    \/ \E tid \in DOMAIN threads : ThreadRestoreThreshold(tid)
    \/ \E tid \in DOMAIN threads : ThreadAdjust(tid)
    \/ CheckSearchStatus

SpecSession == InitSession /\ [][NextSession]_vars

\* The same application, where the user moves the slider, types a text and
\* searches for it: folders are picked and indexed while searches run.
NextOverlap ==
    \/ \E t \in SliderThresholds : UpdateSimilarityValue(t)
    \/ OnTextFieldChange("bird")
    \/ SearchImagesRejected
    \/ \E tid \in DOMAIN threads : SearchImages(tid)
    \/ \E tid \in DOMAIN threads : ThreadSearch(tid)
    \/ \E tid \in DOMAIN threads : ThreadSaveThreshold(tid)
    \/ \E tid \in DOMAIN threads : ThreadOverrideThreshold(tid)
    \/ \E tid \in DOMAIN threads : ThreadSearchAgain(tid)
    \/ \E tid \in DOMAIN threads : ThreadRestoreThreshold(tid)
    \/ \E tid \in DOMAIN threads : ThreadAdjust(tid)
    \/ CheckSearchStatus
    \/ \E path \in Folders : FolderPickerResult(path)
    \/ IndexBatch
    \/ IndexFinished
    \/ CheckIndexingStatus
    \/ SaveOpen("index_thread")
    \/ SaveWrite("index_thread")

SpecOverlap == InitSession /\ [][NextOverlap]_vars

\* C21: at most one indexing or search operation is in flight against the
\* index: no search thread runs while the indexing thread is in
\* index_images.  (The model follows one indexing thread at a time, so that
\* the overlap of two index_images runs is not part of the formula.)
C21_Claimed ==
    ~(/\ indexer.pc = "batch"
      /\ \E tid \in DOMAIN threads : threads[tid].pc # "idle")

\* C29: exactly one of the Text, Image and Hybrid switches is on, whenever
\* no process_image thread is in the middle of its assignments.
C29_Claimed ==
    app.drop.pc = "idle" =>
        Cardinality({w \in {"text", "image", "hybrid"} : switches[w]}) = 1

====
